---------------------------- MODULE Spec2Model ----------------------------
(***************************************************************************)
(* worktree_plus: synchronized working trees of sibling repositories       *)
(* under one folder alias, with a persisted registry of alias <-> branch.  *)
(*                                                                         *)
(* The module models one invocation of main() at a time (the tool is       *)
(* single-threaded and assumes one invocation runs before the next), as a  *)
(* sequential process whose position is pc.  Every step is one externally  *)
(* visible effect of main(): loading the registry, resolving the alias,    *)
(* the two gates, the commit (touchFolder + saveConfig), the enumeration,  *)
(* one createWorktree/removeWorktree per repository, the cleanup, the      *)
(* removal of the folder directory, the deactivation and the shared        *)
(* top-level mirror.  A run can be killed between any two steps.           *)
(***************************************************************************)
EXTENDS Integers, Sequences, FiniteSets, TLC

\* ------------------------------------------------------------------ bounds

\* time.Now() is a logical clock that advances by one with every run; the
\* bound is the number of runs of a behaviour.
MaxClock == 3
\* The failures the environment injects in a behaviour: an IO error of a save,
\* a failed directory, link or version-control operation, a killed run.
MaxFaults == 1
\* The regular files a user leaves in folder alias directories.
MaxUserFiles == 1
\* The ignored-item mirror passes applied to one working tree.
MaxPasses == 2

\* ------------------------------------------------------------ the universe

Branches == {"b1", "b2"}
\* A folder alias defaults to the branch name, so every branch name is an alias;
\* a custom alias for a branch is the name of the other branch.
Aliases == Branches
Repos == {"A", "B"}
configFileName == ".worktree_plus.json"
\* Top-level entries of the invocation root besides the registry document.
RootEntries0 == {"A", "B", "tools", ".git"}
\* Names under which a user leaves regular files in a folder alias directory.
UserNames == {"notes", "tools"}
\* Entries on which a link creation, a removal or a move can fail.
FailNames == {"tools"}
\* Results of the repository enumeration (findGitDirs, or the -dirs list).
Enumerations == {<< >>, <<"A", "B">>}

EmptyReg == [a \in {} |-> 0]

NoDir == [exists |-> FALSE, ents |-> EmptyReg]

Tree(b) == [kind |-> "tree", branch |-> b]
Link == [kind |-> "link", branch |-> ""]
File == [kind |-> "file", branch |-> ""]

NoReq == [list |-> FALSE, remove |-> FALSE, branch |-> "", folder |-> ""]

VARIABLES
    doc,        \* the persisted registry document: [kind, folders]
    fs,         \* folder alias directories under the parent of the root
    root,       \* top-level entries of the invocation root (without the document)
    dangling,   \* the entries of root that are symbolic links to a missing target
    now,        \* the clock: the time of the current run
    faults,     \* the failures injected so far
    userFiles,  \* the files users have left so far
    pc,         \* position of the current run in main()
    req,        \* the flags and the positional argument of the current run
    config,     \* the in-memory registry of the current run
    folderName,
    branchName,
    targetDirs,
    idx,        \* position in targetDirs (1-based)
    outcome,    \* how the run that just ended ended ("none": no run just ended)
    saved,      \* the result of the run's saveConfig: "none", "ok" or "failed"
    visited,    \* the repositories the loop has processed, in order
    failed,     \* the repositories whose createWorktree/removeWorktree failed
    ops,        \* the operations the last step performed, in order
    doc0, fs0, root0,  \* the document and the disk when the run started
    tree,       \* a working tree the mirror passes are applied to
    tree0,      \* that working tree before the last pass
    mcall       \* the inputs and the result of the last ignored-item mirror pass

vars == <<doc, fs, root, dangling, now, faults, userFiles, pc, req, config, folderName, branchName,
          targetDirs, idx, outcome, saved, visited, failed, ops, doc0, fs0, root0,
          tree, tree0, mcall>>

disk == <<fs, root>>
env == <<now, faults, userFiles>>
run == <<req, config, folderName, branchName, targetDirs, idx, saved, visited, failed>>
snap == <<doc0, fs0, root0>>
mirror == <<tree, tree0, mcall>>

\* ---------------------------------------------------------------- registry

FolderInfo(b, t, act) == [branch |-> b, lastUsed |-> t, isActive |-> act]

MissingDoc == [kind |-> "missing", folders |-> EmptyReg]
MalformedDoc == [kind |-> "malformed", folders |-> EmptyReg]
Document(c) == [kind |-> "ok", folders |-> c]
\* A document that parses and has no "folders" field: the field of the decoded
\* Config is nil.
NoFieldDoc == [kind |-> "nofield", folders |-> EmptyReg]

\* A load that takes a document it cannot parse for an empty one.
loadConfigOk_Lenient(d) == TRUE

\* loadConfig: a missing document is the empty registry; a malformed one is an error.
loadConfigOk(d) == d.kind # "malformed"
loadConfig(d) == IF d.kind = "ok" THEN d.folders ELSE EmptyReg

\* A save that reports success without writing the document.
saveConfig_Lost(d, c) == {[ok |-> TRUE, doc |-> d, n |-> 0]}

\* saveConfig: os.WriteFile either writes the whole document, or fails before
\* touching the file, or fails after truncating it.
saveConfig(d, c) == {[ok |-> TRUE, doc |-> Document(c), n |-> 0],
                     [ok |-> FALSE, doc |-> d, n |-> 1],
                     [ok |-> FALSE, doc |-> MalformedDoc, n |-> 1]}

\* A lookup that never finds the active record of a branch.
findFolderByBranch_None(c, b) == {}

\* findFolderByBranch ranges over the map in an unspecified order: every
\* active alias bound to the branch is a possible result.
findFolderByBranch(c, b) ==
    {a \in DOMAIN c : c[a].isActive /\ c[a].branch = b}

\* A touchFolder that keeps the branch of a record it finds.
touchFolder_KeepBranch(c, f, b, t) ==
    IF f \in DOMAIN c
    THEN [c EXCEPT ![f] = [@ EXCEPT !.lastUsed = t, !.isActive = TRUE]]
    ELSE c @@ (f :> [branch |-> b, lastUsed |-> t, isActive |-> TRUE])

touchFolder(c, f, b, t) ==
    IF f \in DOMAIN c
    THEN [c EXCEPT ![f] = [@ EXCEPT !.lastUsed = t, !.isActive = TRUE, !.branch = b]]
    ELSE c @@ (f :> FolderInfo(b, t, TRUE))

\* A deactivation that deletes the record.
deactivateFolder_Delete(c, f, t) == [a \in (DOMAIN c) \ {f} |-> c[a]]

\* A deactivation that marks every record of the registry inactive.
deactivateFolder_All(c, f, t) ==
    [a \in DOMAIN c |-> [c[a] EXCEPT !.isActive = FALSE, !.lastUsed = t]]

deactivateFolder(c, f, t) ==
    IF f \in DOMAIN c
    THEN [c EXCEPT ![f] = [@ EXCEPT !.isActive = FALSE, !.lastUsed = t]]
    ELSE c

\* A conflict check that never finds a conflict.
checkBranchConflict_None(c, f, b) == {}

\* A conflict check that looks at the record of the requested alias only.
checkBranchConflict_OwnAlias(c, f, b) ==
    {a \in DOMAIN c : c[a].isActive /\ c[a].branch = b /\ a = f}

\* checkBranchConflict: the folders it can return; none when the set is empty.
checkBranchConflict(c, f, b) ==
    {a \in DOMAIN c : c[a].isActive /\ c[a].branch = b /\ a # f}

\* An exact-match test that never matches.
isExactMatch_Never(c, f, b) == FALSE

isExactMatch(c, f, b) ==
    IF f \in DOMAIN c THEN c[f].isActive /\ c[f].branch = b ELSE FALSE

\* The orders in which a range over the map can visit its keys.
IterationOrders(c) ==
    {s \in [1..Cardinality(DOMAIN c) -> DOMAIN c] :
        \A i, j \in DOMAIN s : i # j => s[i] # s[j]}

\* findFolderByBranch when the range visits the keys in order s: the first
\* active alias of the branch, or ("", false).
findFolderByBranchIn(c, b, s) ==
    LET hits == SelectSeq(s, LAMBDA a : c[a].isActive /\ c[a].branch = b)
    IN  IF Len(hits) = 0 THEN [folder |-> "", ok |-> FALSE]
        ELSE [folder |-> hits[1], ok |-> TRUE]

\* checkBranchConflict when the range visits the keys in order s: the first
\* other active alias of the branch, or "".
checkBranchConflictIn(c, f, b, s) ==
    LET hits == SelectSeq(s, LAMBDA a : c[a].isActive /\ c[a].branch = b /\ a # f)
    IN  IF Len(hits) = 0 THEN "" ELSE hits[1]

\* ------------------------------------------------------------- interaction

Range(s) == {s[i] : i \in DOMAIN s}

\* getRecentFolders: the aliases ordered by lastUsed, most recent first (the
\* order among equal timestamps is unspecified).
getRecentFolders(c) ==
    {s \in [1..Cardinality(DOMAIN c) -> DOMAIN c] :
        /\ \A i, j \in DOMAIN s : i # j => s[i] # s[j]
        /\ \A i \in 1..(Len(s) - 1) : ~(c[s[i + 1]].lastUsed > c[s[i]].lastUsed)}

ActiveOf(c, s) == SelectSeq(s, LAMBDA a : c[a].isActive)
InactiveOf(c, s) == SelectSeq(s, LAMBDA a : ~c[a].isActive)

Cancelled == [ok |-> FALSE, folder |-> "", branch |-> ""]
Chosen(f, b) == [ok |-> TRUE, folder |-> f, branch |-> b]

\* promptTextInput: a cancellation or an empty value is not ok.
promptTextInput == {Cancelled} \cup {Chosen(t, "") : t \in Aliases}

\* runSelect returns -1 (cancelled) or the index of an item.
runSelect(n) == (0..(n - 1)) \cup {-1}

\* selectFolderForBranch: the results the user can produce.
selectFolderForBranch(c, b) ==
    UNION {LET inactiveFolders == InactiveOf(c, s)
               nItems == Len(inactiveFolders) + 3
           IN  IF Len(inactiveFolders) = 0
               THEN {Chosen(b, b)}
               ELSE UNION {IF i = -1 \/ i = nItems - 1 THEN {Cancelled}
                           ELSE IF i = 0 THEN {Chosen(b, b)}
                           ELSE IF i = 1
                                THEN {[r EXCEPT !.branch = IF r.ok THEN b ELSE ""] :
                                          r \in promptTextInput}
                           ELSE {Chosen(inactiveFolders[i - 2 + 1], b)} :
                           i \in runSelect(nItems)} :
           s \in getRecentFolders(c)}

\* interactiveSelectMapping: the user picks one of the active records.
interactiveSelectMapping(c) ==
    UNION {LET activeFolders == ActiveOf(c, s)
           IN  IF Len(activeFolders) = 0
               THEN {Cancelled}
               ELSE {IF i = -1 \/ i = Len(activeFolders) THEN Cancelled
                     ELSE Chosen(activeFolders[i + 1], c[activeFolders[i + 1]].branch) :
                     i \in runSelect(Len(activeFolders) + 1)} :
           s \in getRecentFolders(c)}

\* --------------------------------------------------------------- the disk

Ev(op, repo, arg, ok) == [op |-> op, repo |-> repo, arg |-> arg, ok |-> ok]

Without(ents, S) == [n \in (DOMAIN ents) \ S |-> ents[n]]
With(ents, S, e) == [n \in (DOMAIN ents) \cup S |-> IF n \in S THEN e ELSE ents[n]]

\* The top-level entries of the invocation root: the registry document is one.
RootEntries(r, d) == r \cup (IF d.kind # "missing" THEN {configFileName} ELSE {})

\* The names of the invocation root that os.Stat finds: os.Stat follows a
\* symbolic link and reports a link to a missing target as not existing.
StatEntries(r, d, l) == RootEntries(r, d) \ l

\* A path is the sequence of its components from the filesystem root.
\* The invocation root:
cwd == <<"home", "ws">>

\* filepath.Base, filepath.Dir and filepath.Join on such paths.
Base(p) == IF Len(p) = 0 THEN "/" ELSE p[Len(p)]
Dir(p) == IF Len(p) = 0 THEN p ELSE SubSeq(p, 1, Len(p) - 1)
Join(p, q) == p \o q

\* findGitDirs, line 20: the path of the repository that is the entry `name`
\* of the invocation root.
RepoDir(name) == Join(cwd, <<name>>)

\* main, lines 171 and 201: the folder alias directory.
folderDir(f) == Join(Dir(cwd), <<f>>)

\* getWorktreePath(dir, folderName): ../../<folder>/<dirname> of dir.
getWorktreePath(dir, f) == Join(Dir(Dir(dir)), <<f, Base(dir)>>)

\* The state of the requested branch in a repository when createWorktree
\* classifies it: what branchExists and remoteBranchExists would answer.
BranchState(existsLocal, existsRemote) ==
    IF existsLocal /\ existsRemote THEN "local+remote"
    ELSE IF existsLocal THEN "local"
    ELSE IF existsRemote THEN "remote"
    ELSE "none"

\* A classification that prefers the remote branch.
AddKind_RemoteFirst(existsLocal, existsRemote) ==
    IF existsRemote THEN "track"
    ELSE IF existsLocal THEN "attach"
    ELSE "new"

\* createWorktree's branch provenance: local beats remote beats new.
\* branchExists and remoteBranchExists are answers of the version-control tool.
AddKind(existsLocal, existsRemote) ==
    IF existsLocal THEN "attach"
    ELSE IF existsRemote THEN "track"
    ELSE "new"

\* A createWorktree without the test for an existing target path.
createWorktree_Readd(d, dir, b) ==
    {[dir |-> [exists |-> TRUE,
               ents |-> [n \in (DOMAIN d.ents) \cup {dir} |->
                            IF n = dir THEN [kind |-> "tree", branch |-> b]
                            ELSE d.ents[n]]],
      err |-> FALSE, n |-> 0,
      ops |-> <<[op |-> "mkdir", repo |-> dir, arg |-> "", ok |-> TRUE],
                [op |-> "add", repo |-> dir, arg |-> "attach", ok |-> TRUE],
                [op |-> "mirror", repo |-> dir, arg |-> "", ok |-> TRUE]>>]}

\* A createWorktree that reports a failure of the ignored-item mirror as its own.
createWorktree_MirrorFatal(d, dir, b) ==
    IF d.exists /\ dir \in DOMAIN d.ents
    THEN {[dir |-> d, err |-> FALSE, n |-> 0,
           ops |-> <<[op |-> "exists", repo |-> dir, arg |-> "", ok |-> TRUE]>>]}
    ELSE {[dir |-> [exists |-> TRUE,
                    ents |-> [n \in (DOMAIN d.ents) \cup {dir} |->
                                 IF n = dir THEN [kind |-> "tree", branch |-> b]
                                 ELSE d.ents[n]]],
           err |-> ~m, n |-> IF m THEN 0 ELSE 1,
           ops |-> <<[op |-> "mkdir", repo |-> dir, arg |-> "", ok |-> TRUE],
                     [op |-> "refs", repo |-> dir, arg |-> "local", ok |-> TRUE],
                     [op |-> "add", repo |-> dir, arg |-> "attach", ok |-> TRUE],
                     [op |-> "mirror", repo |-> dir, arg |-> "", ok |-> m]>>] :
           m \in BOOLEAN}

\* createWorktree(dir, folder, branch): the results it can produce on the
\* folder alias directory d, each with the operations it performed.
createWorktree(d, dir, b) ==
    IF d.exists /\ dir \in DOMAIN d.ents
    THEN {[dir |-> d, err |-> FALSE, n |-> 0,
           ops |-> <<Ev("exists", dir, "", TRUE)>>]}
    ELSE LET made == [d EXCEPT !.exists = TRUE]
             added == [made EXCEPT !.ents = With(@, {dir}, Tree(b))]
         IN  (IF d.exists THEN {}
              ELSE {[dir |-> d, err |-> TRUE, n |-> 1,
                     ops |-> <<Ev("mkdir", dir, "", FALSE)>>]})
             \cup
             {[dir |-> made, err |-> TRUE, n |-> 1,
               ops |-> <<Ev("mkdir", dir, "", TRUE),
                         Ev("refs", dir, BranchState(x[1], x[2]), TRUE),
                         Ev("add", dir, AddKind(x[1], x[2]), FALSE)>>] :
               x \in BOOLEAN \X BOOLEAN}
             \cup
             {[dir |-> added, err |-> FALSE, n |-> IF x[3] THEN 0 ELSE 1,
               ops |-> <<Ev("mkdir", dir, "", TRUE),
                         Ev("refs", dir, BranchState(x[1], x[2]), TRUE),
                         Ev("add", dir, AddKind(x[1], x[2]), TRUE),
                         Ev("mirror", dir, "", x[3])>>] :
               x \in BOOLEAN \X BOOLEAN \X BOOLEAN}

\* A removeWorktree that runs the removal commands on an absent target path.
removeWorktree_AbsentFails(d, dir) ==
    IF ~(d.exists /\ dir \in DOMAIN d.ents)
    THEN {[dir |-> d, err |-> TRUE, n |-> 0,
           ops |-> <<[op |-> "remove", repo |-> dir, arg |-> "plain", ok |-> FALSE],
                     [op |-> "remove", repo |-> dir, arg |-> "force", ok |-> FALSE]>>]}
    ELSE {[dir |-> [d EXCEPT !.ents = [n \in (DOMAIN @) \ {dir} |-> @[n]]],
           err |-> FALSE, n |-> 0,
           ops |-> <<[op |-> "remove", repo |-> dir, arg |-> "plain", ok |-> TRUE]>>]}

\* A removeWorktree that gives up after the plain removal failed.
removeWorktree_NoForce(d, dir) ==
    IF ~(d.exists /\ dir \in DOMAIN d.ents)
    THEN {[dir |-> d, err |-> FALSE, n |-> 0,
           ops |-> <<[op |-> "absent", repo |-> dir, arg |-> "", ok |-> TRUE]>>]}
    ELSE {[dir |-> d, err |-> TRUE, n |-> IF d.ents[dir].kind = "tree" THEN 1 ELSE 0,
           ops |-> <<[op |-> "remove", repo |-> dir, arg |-> "plain", ok |-> FALSE]>>]}
         \cup
         (IF d.ents[dir].kind = "tree"
          THEN {[dir |-> [d EXCEPT !.ents = [n \in (DOMAIN @) \ {dir} |-> @[n]]],
                 err |-> FALSE, n |-> 0,
                 ops |-> <<[op |-> "remove", repo |-> dir, arg |-> "plain", ok |-> TRUE]>>]}
          ELSE {})

\* removeWorktree(dir, folder, branch): a plain removal, then a forced one.
\* Only a working tree can be removed by the version-control tool.
removeWorktree(d, dir) ==
    IF ~(d.exists /\ dir \in DOMAIN d.ents)
    THEN {[dir |-> d, err |-> FALSE, n |-> 0,
           ops |-> <<Ev("absent", dir, "", TRUE)>>]}
    ELSE LET gone == [d EXCEPT !.ents = Without(@, {dir})]
             isTree == d.ents[dir].kind = "tree"
         IN  {[dir |-> d, err |-> TRUE, n |-> IF isTree THEN 1 ELSE 0,
               ops |-> <<Ev("remove", dir, "plain", FALSE),
                         Ev("remove", dir, "force", FALSE)>>]}
             \cup
             (IF isTree
              THEN {[dir |-> gone, err |-> FALSE, n |-> 0,
                     ops |-> <<Ev("remove", dir, "plain", TRUE)>>],
                    [dir |-> gone, err |-> FALSE, n |-> 1,
                     ops |-> <<Ev("remove", dir, "plain", FALSE),
                               Ev("remove", dir, "force", TRUE)>>]}
              ELSE {})

Dispositions == {"delete", "relocate", "leave", "cancel", "invalid", "readerr"}

\* cleanupFolderDir removing the links only once the answer has been read and
\* understood.
cleanupFolderDir_LinksAfterAnswer(d, rootAll) ==
    IF ~d.exists
    THEN {[dir |-> d, moved |-> {}, err |-> FALSE, n |-> 0, ops |-> << >>]}
    ELSE UNION {
        LET names == DOMAIN d.ents
            symlinks == {n \in names : d.ents[n].kind = "link"}
            regularFiles == names \ symlinks
            unlinked == [d EXCEPT !.ents = Without(@, symlinks \ F)]
        IN  IF regularFiles = {}
            THEN {[dir |-> unlinked, moved |-> {}, err |-> FALSE,
                   n |-> Cardinality(F),
                   ops |-> <<Ev("cleanup", "", "", TRUE)>>]}
            ELSE {LET removed == IF choice = "delete" THEN regularFiles \ F ELSE {}
                      moved == IF choice = "relocate"
                               THEN {n \in regularFiles : n \notin rootAll /\ n \notin F}
                               ELSE {}
                      base == IF choice \in {"cancel", "invalid", "readerr"}
                              THEN d ELSE unlinked
                  IN  [dir |-> [base EXCEPT !.ents = Without(@, removed \cup moved)],
                       moved |-> moved,
                       err |-> (choice = "readerr"),
                       n |-> Cardinality(F),
                       ops |-> <<Ev("cleanup", "", choice, TRUE)>>] :
                  choice \in Dispositions} :
        F \in SUBSET (DOMAIN d.ents \cap FailNames)}

\* cleanupFolderDir taking an answer that is not a number as the first choice:
\* the remaining entries are removed.
cleanupFolderDir_DeleteOnInvalid(d, rootAll) ==
    IF ~d.exists
    THEN {[dir |-> d, moved |-> {}, err |-> FALSE, n |-> 0, ops |-> << >>]}
    ELSE UNION {
        LET names == DOMAIN d.ents
            symlinks == {n \in names : d.ents[n].kind = "link"}
            regularFiles == names \ symlinks
            unlinked == [d EXCEPT !.ents = Without(@, symlinks \ F)]
        IN  IF regularFiles = {}
            THEN {[dir |-> unlinked, moved |-> {}, err |-> FALSE,
                   n |-> Cardinality(F),
                   ops |-> <<Ev("cleanup", "", "", TRUE)>>]}
            ELSE {LET removed == IF choice \in {"delete", "invalid"}
                                 THEN regularFiles \ F ELSE {}
                      moved == IF choice = "relocate"
                               THEN {n \in regularFiles : n \notin rootAll /\ n \notin F}
                               ELSE {}
                  IN  [dir |-> [unlinked EXCEPT !.ents = Without(@, removed \cup moved)],
                       moved |-> moved,
                       err |-> (choice = "readerr"),
                       n |-> Cardinality(F),
                       ops |-> <<Ev("cleanup", "", choice, TRUE)>>] :
                  choice \in Dispositions} :
        F \in SUBSET (DOMAIN d.ents \cap FailNames)}

\* cleanupFolderDir(folderDir, cwd): the results it can produce.  F is the
\* set of entries on which a removal or a move fails; rootAll is the set of
\* names that os.Stat finds in cwd.
cleanupFolderDir(d, rootAll) ==
    IF ~d.exists
    THEN {[dir |-> d, moved |-> {}, err |-> FALSE, n |-> 0, ops |-> << >>]}
    ELSE UNION {
        LET names == DOMAIN d.ents
            symlinks == {n \in names : d.ents[n].kind = "link"}
            regularFiles == names \ symlinks
            unlinked == [d EXCEPT !.ents = Without(@, symlinks \ F)]
        IN  IF regularFiles = {}
            THEN {[dir |-> unlinked, moved |-> {}, err |-> FALSE,
                   n |-> Cardinality(F),
                   ops |-> <<Ev("cleanup", "", "", TRUE)>>]}
            ELSE {LET removed == IF choice = "delete" THEN regularFiles \ F ELSE {}
                      moved == IF choice = "relocate"
                               THEN {n \in regularFiles : n \notin rootAll /\ n \notin F}
                               ELSE {}
                  IN  [dir |-> [unlinked EXCEPT !.ents = Without(@, removed \cup moved)],
                       moved |-> moved,
                       err |-> (choice = "readerr"),
                       n |-> Cardinality(F),
                       ops |-> <<Ev("cleanup", "", choice, TRUE)>>] :
                  choice \in Dispositions} :
        F \in SUBSET (DOMAIN d.ents \cap FailNames)}

\* symlinkRootFiles without the set of excluded directories: the directories
\* of the processed repositories are linked as well.
symlinkRootFiles_LinkRepos(d, rootAll, dirs) ==
    LET wanted == {n \in rootAll : n # ".git" /\ n \notin DOMAIN d.ents}
    IN  {[dir |-> d, err |-> TRUE, n |-> 1,
          ops |-> <<Ev("rootlinks", "", "readdir", FALSE)>>]}
        \cup
        {LET linked == IF d.exists THEN wanted \ F ELSE {}
         IN  [dir |-> [d EXCEPT !.ents = With(@, linked, Link)],
              err |-> (wanted \ linked # {}),
              n |-> Cardinality(F),
              ops |-> <<Ev("rootlinks", "", "", wanted \ linked = {})>>] :
         F \in SUBSET (wanted \cap FailNames)}

\* symlinkRootFiles(rootDir, folderDir, targetDirs): the results it can
\* produce.  F is the set of entries whose link creation fails; every link
\* creation fails when the folder alias directory does not exist.
symlinkRootFiles(d, rootAll, dirs) ==
    LET excludeSet == Range(dirs)
        wanted == {n \in rootAll : n \notin excludeSet /\ n # ".git"
                                   /\ n \notin DOMAIN d.ents}
    IN  {[dir |-> d, err |-> TRUE, n |-> 1,
          ops |-> <<Ev("rootlinks", "", "readdir", FALSE)>>]}
        \cup
        {LET linked == IF d.exists THEN wanted \ F ELSE {}
         IN  [dir |-> [d EXCEPT !.ents = With(@, linked, Link)],
              err |-> (wanted \ linked # {}),
              n |-> Cardinality(F),
              ops |-> <<Ev("rootlinks", "", "", wanted \ linked = {})>>] :
         F \in SUBSET (wanted \cap FailNames)}

\* ------------------------------------------------ the ignored-item mirror

\* The ignored paths a repository can have (git ls-files --others --ignored).
IgnoredPaths == {"build", "out/tmp.bin"}

\* The lines git ls-files prints for them: a directory ends in a slash.
LsLines == {"build/", "out/tmp.bin"}

\* The outputs of git ls-files, split into lines: the lines are distinct, and
\* an empty output splits into one empty line.
LsOutputs ==
    {<<"">>} \cup {<<i>> : i \in LsLines}
    \cup {<<i, j>> : <<i, j>> \in {x \in LsLines \X LsLines : x[1] # x[2]}}

TrimSlash(line) ==
    IF Len(line) > 0 /\ SubSeq(line, Len(line), Len(line)) = "/"
    THEN SubSeq(line, 1, Len(line) - 1)
    ELSE line

\* getIgnoredItems, lines 40-49: the lines that are not empty, without the
\* trailing slash of a directory.
getIgnoredItems(lines) ==
    LET kept == SelectSeq(lines, LAMBDA line : line # "")
    IN  [i \in DOMAIN kept |-> TrimSlash(kept[i])]

\* The lists getIgnoredItems can return.
ItemLists == {getIgnoredItems(out) : out \in LsOutputs}

\* The header addToGitExclude writes before its first patterns.
ExcludeHeader == "# worktree_plus symlinks"

\* A working tree as the mirror sees it: the kind of what is at each ignored
\* path, the lines of its ignore file, and whether the ignore file is marked
\* assume-unchanged.
WorkTree(ents, ignore, assumed) == [ents |-> ents, ignore |-> ignore, assumed |-> assumed]

HasPrefix(line, prefix) ==
    Len(line) >= Len(prefix) /\ SubSeq(line, 1, Len(prefix)) = prefix

\* addToGitExclude, lines 64-71: the patterns the ignore file has.
existingPatterns(w) ==
    {line \in Range(w.ignore) : line # "" /\ ~HasPrefix(line, "#")}

\* addToGitExclude, line 77: the root-anchored pattern of an item.
Pattern(item) == "/" \o item

\* addToGitExclude without the set of existing patterns: every pattern is
\* appended.
addToGitExclude_NoDedup(w, items, exclude) ==
    LET newItems == [i \in DOMAIN items |-> Pattern(items[i])]
        header == IF ExcludeHeader \in Range(w.ignore) THEN << >>
                  ELSE <<"", ExcludeHeader>>
        written == [w EXCEPT !.ignore = @ \o header \o newItems]
        partly == [w EXCEPT !.ignore = @ \o header \o SubSeq(newItems, 1, Len(newItems) - 1)]
    IN  IF Len(newItems) = 0 THEN [w |-> w, err |-> FALSE, asked |-> FALSE]
        ELSE IF exclude = "open" THEN [w |-> w, err |-> TRUE, asked |-> FALSE]
        ELSE IF exclude = "write" THEN [w |-> partly, err |-> TRUE, asked |-> FALSE]
        ELSE IF exclude = "assume" THEN [w |-> written, err |-> TRUE, asked |-> TRUE]
        ELSE [w |-> [written EXCEPT !.assumed = TRUE], err |-> FALSE, asked |-> TRUE]

\* addToGitExclude(worktreeDir, items).  exclude: "ok", "open" (the ignore
\* file cannot be opened), "write" (the write of the last new pattern fails)
\* or "assume" (git update-index fails).  asked: whether git update-index
\* --assume-unchanged has been run.
addToGitExclude(w, items, exclude) ==
    LET newItems == SelectSeq([i \in DOMAIN items |-> Pattern(items[i])],
                              LAMBDA pattern : pattern \notin existingPatterns(w))
        header == IF ExcludeHeader \in Range(w.ignore) THEN << >>
                  ELSE <<"", ExcludeHeader>>
        written == [w EXCEPT !.ignore = @ \o header \o newItems]
        partly == [w EXCEPT !.ignore = @ \o header \o SubSeq(newItems, 1, Len(newItems) - 1)]
    IN  IF Len(newItems) = 0 THEN [w |-> w, err |-> FALSE, asked |-> FALSE]
        ELSE IF exclude = "open" THEN [w |-> w, err |-> TRUE, asked |-> FALSE]
        ELSE IF exclude = "write" THEN [w |-> partly, err |-> TRUE, asked |-> FALSE]
        ELSE IF exclude = "assume" THEN [w |-> written, err |-> TRUE, asked |-> TRUE]
        ELSE [w |-> [written EXCEPT !.assumed = TRUE], err |-> FALSE, asked |-> TRUE]

\* createIgnoredSymlinks returning at the first item that fails: the items
\* after it are not linked.
createIgnoredSymlinks_AbortOnFirst(w, items, lsOk, srcExists, F, exclude) ==
    LET todo == SelectSeq(items, LAMBDA item : item \in srcExists /\ item \notin DOMAIN w.ents)
        fails == {i \in DOMAIN todo : todo[i] \in F}
        stop == IF fails = {} THEN Len(todo) + 1
                ELSE CHOOSE i \in fails : \A j \in fails : i <= j
        errors == IF fails = {} THEN << >> ELSE <<todo[stop]>>
        linkedItems == SubSeq(todo, 1, stop - 1)
        linked == [w EXCEPT !.ents = [p \in (DOMAIN @) \cup Range(linkedItems) |->
                                         IF p \in DOMAIN @ THEN @[p] ELSE "link"]]
        added == addToGitExclude(linked, linkedItems, exclude)
    IN  IF ~lsOk THEN [w |-> w, err |-> TRUE, linked |-> << >>, errors |-> << >>,
                       asked |-> FALSE]
        ELSE IF Len(items) = 0 THEN [w |-> w, err |-> FALSE, linked |-> << >>,
                                     errors |-> << >>, asked |-> FALSE]
        ELSE [w |-> IF Len(linkedItems) > 0 THEN added.w ELSE linked,
              err |-> Len(errors) > 0, linked |-> linkedItems, errors |-> errors,
              asked |-> Len(linkedItems) > 0 /\ added.asked]

\* createIgnoredSymlinks without the check of the destination: what is at the
\* path of an item is replaced by the link.
createIgnoredSymlinks_Overwrite(w, items, lsOk, srcExists, F, exclude) ==
    LET todo == SelectSeq(items, LAMBDA item : item \in srcExists)
        errors == SelectSeq(todo, LAMBDA item : item \in F)
        linkedItems == SelectSeq(todo, LAMBDA item : item \notin F)
        linked == [w EXCEPT !.ents = [p \in (DOMAIN @) \cup Range(linkedItems) |->
                                         IF p \in Range(linkedItems) THEN "link" ELSE @[p]]]
        added == addToGitExclude(linked, linkedItems, exclude)
    IN  IF ~lsOk THEN [w |-> w, err |-> TRUE, linked |-> << >>, errors |-> << >>,
                       asked |-> FALSE]
        ELSE IF Len(items) = 0 THEN [w |-> w, err |-> FALSE, linked |-> << >>,
                                     errors |-> << >>, asked |-> FALSE]
        ELSE [w |-> IF Len(linkedItems) > 0 THEN added.w ELSE linked,
              err |-> Len(errors) > 0, linked |-> linkedItems, errors |-> errors,
              asked |-> Len(linkedItems) > 0 /\ added.asked]

\* createIgnoredSymlinks(sourceDir, worktreeDir).  items is what
\* getIgnoredItems returns (lsOk: whether it succeeds), srcExists the items
\* os.Stat finds in the source repository, F the items whose parent directory
\* or link cannot be created, exclude the result of addToGitExclude.
createIgnoredSymlinks(w, items, lsOk, srcExists, F, exclude) ==
    LET todo == SelectSeq(items, LAMBDA item : item \in srcExists
                                               /\ item \notin DOMAIN w.ents)
        errors == SelectSeq(todo, LAMBDA item : item \in F)
        linkedItems == SelectSeq(todo, LAMBDA item : item \notin F)
        linked == [w EXCEPT !.ents = [p \in (DOMAIN @) \cup Range(linkedItems) |->
                                         IF p \in DOMAIN @ THEN @[p] ELSE "link"]]
        added == addToGitExclude(linked, linkedItems, exclude)
    IN  IF ~lsOk THEN [w |-> w, err |-> TRUE, linked |-> << >>, errors |-> << >>,
                       asked |-> FALSE]
        ELSE IF Len(items) = 0
        THEN [w |-> w, err |-> FALSE, linked |-> << >>, errors |-> << >>, asked |-> FALSE]
        ELSE [w |-> IF Len(linkedItems) > 0 THEN added.w ELSE linked,
              err |-> Len(errors) > 0,
              linked |-> linkedItems,
              errors |-> errors,
              asked |-> Len(linkedItems) > 0 /\ added.asked]

\* A working tree without ignored paths and without an ignore file.
NoTree == WorkTree([p \in {} |-> ""], << >>, FALSE)

\* No mirror pass has been made (n counts the passes).
NoCall == [n |-> 0, items |-> << >>, lsOk |-> TRUE, srcExists |-> {}, F |-> {},
           exclude |-> "ok", err |-> FALSE, linked |-> << >>, errors |-> << >>,
           asked |-> FALSE]

\* ------------------------------------------------------------------- main

Requests ==
    {[list |-> TRUE, remove |-> FALSE, branch |-> "", folder |-> ""]}
    \cup
    {[list |-> FALSE, remove |-> r, branch |-> b, folder |-> f] :
        r \in BOOLEAN, b \in Branches \cup {""}, f \in Aliases \cup {""}}

Init ==
    /\ doc = MissingDoc
    /\ fs = [a \in Aliases |-> NoDir]
    /\ root = RootEntries0
    /\ dangling = {}
    /\ now = 0
    /\ faults = 0
    /\ userFiles = 0
    /\ pc = "done"
    /\ req = NoReq
    /\ config = EmptyReg
    /\ folderName = ""
    /\ branchName = ""
    /\ targetDirs = << >>
    /\ idx = 0
    /\ outcome = "none"
    /\ saved = "none"
    /\ visited = << >>
    /\ failed = {}
    /\ ops = << >>
    /\ doc0 = MissingDoc
    /\ fs0 = fs
    /\ root0 = root
    /\ tree = NoTree
    /\ tree0 = NoTree
    /\ mcall = NoCall

Exit(o) == pc' = "done" /\ outcome' = o

\* main, lines 27-59: the flags, the working directory, loadConfig, -list.
StartRun ==
    /\ UNCHANGED <<mirror, dangling>>
    /\ pc = "done"
    /\ now < MaxClock
    /\ now' = now + 1
    /\ \E r \in Requests : req' = r
    /\ doc0' = doc /\ fs0' = fs /\ root0' = root
    /\ ops' = << >> /\ visited' = << >> /\ failed' = {} /\ saved' = "none"
    /\ folderName' = "" /\ branchName' = "" /\ targetDirs' = << >> /\ idx' = 0
    /\ IF ~loadConfigOk(doc)
       THEN Exit("loaderr") /\ config' = EmptyReg
       ELSE /\ config' = loadConfig(doc)
            /\ IF req'.list THEN Exit("listed")
               ELSE pc' = "resolve" /\ outcome' = "running"
    /\ UNCHANGED <<doc, disk, faults, userFiles>>

\* main, lines 61-100: the branch and the folder alias of the request.
Resolve ==
    /\ UNCHANGED <<mirror, dangling>>
    /\ pc = "resolve"
    /\ ops' = << >>
    /\ UNCHANGED <<doc, disk, env, req, config, targetDirs, idx, saved, visited, failed,
                   snap>>
    /\ IF req.remove /\ req.branch = ""
       THEN \E r \in interactiveSelectMapping(config) :
                /\ folderName' = r.folder
                /\ branchName' = r.branch
                /\ IF r.ok THEN pc' = "enum" /\ outcome' = outcome
                   ELSE Exit("cancelled")
       ELSE IF req.branch = ""
       THEN Exit("usage") /\ UNCHANGED <<folderName, branchName>>
       ELSE /\ branchName' = req.branch
            /\ \E r \in (IF req.folder # ""
                         THEN {Chosen(req.folder, req.branch)}
                         ELSE IF findFolderByBranch(config, req.branch) # {}
                         THEN {Chosen(a, req.branch) :
                                  a \in findFolderByBranch(config, req.branch)}
                         ELSE IF ~req.remove
                         THEN selectFolderForBranch(config, req.branch)
                         ELSE {Chosen(req.branch, req.branch)}) :
                /\ folderName' = r.folder
                /\ IF ~r.ok THEN Exit("cancelled")
                   ELSE /\ pc' = IF req.remove THEN "enum" ELSE "gates"
                        /\ outcome' = outcome

\* Gates that report the conflict only after the binding has been committed.
Gates_LateConflict ==
    /\ UNCHANGED <<mirror, dangling>>
    /\ pc = "gates"
    /\ UNCHANGED <<disk, env, req, folderName, branchName, targetDirs, idx, saved, visited,
                   failed, snap>>
    /\ IF isExactMatch(config, folderName, branchName)
       THEN Exit("noop") /\ ops' = << >> /\ UNCHANGED <<doc, config>>
       ELSE IF checkBranchConflict(config, folderName, branchName) # {}
       THEN /\ Exit("conflict")
            /\ config' = touchFolder(config, folderName, branchName, now)
            /\ doc' = Document(config')
            /\ \E conflictFolder \in checkBranchConflict(config, folderName, branchName) :
                   ops' = <<Ev("error", "", conflictFolder, FALSE)>>
       ELSE pc' = "commit" /\ outcome' = outcome /\ ops' = << >> /\ UNCHANGED <<doc, config>>

\* main, lines 102-115: the exact-match short-circuit and the conflict check.
Gates ==
    /\ UNCHANGED <<mirror, dangling>>
    /\ pc = "gates"
    /\ UNCHANGED <<doc, disk, env, run, snap>>
    /\ IF isExactMatch(config, folderName, branchName)
       THEN Exit("noop") /\ ops' = << >>
       ELSE IF checkBranchConflict(config, folderName, branchName) # {}
       THEN /\ Exit("conflict")
            /\ \E conflictFolder \in checkBranchConflict(config, folderName, branchName) :
                   ops' = <<Ev("error", "", conflictFolder, FALSE)>>
       ELSE pc' = "commit" /\ outcome' = outcome /\ ops' = << >>

\* main, lines 117-124: touchFolder, then saveConfig (a failure is a warning).
Commit ==
    /\ UNCHANGED <<mirror, dangling>>
    /\ pc = "commit"
    /\ config' = touchFolder(config, folderName, branchName, now)
    /\ \E s \in saveConfig(doc, config') :
           /\ faults + s.n <= MaxFaults
           /\ faults' = faults + s.n
           /\ doc' = s.doc
           /\ saved' = IF s.ok THEN "ok" ELSE "failed"
           /\ ops' = <<Ev("touch", "", folderName, TRUE), Ev("save", "", "", s.ok)>>
    /\ pc' = "enum"
    /\ UNCHANGED <<disk, now, userFiles, req, folderName, branchName, targetDirs, idx,
                   visited, failed, outcome, snap>>

\* main, lines 127-153: the repositories to process.
Enumerate ==
    /\ UNCHANGED <<mirror, dangling>>
    /\ pc = "enum"
    /\ ops' = << >>
    /\ UNCHANGED <<doc, disk, now, userFiles, req, config, folderName, branchName,
                   saved, visited, failed, snap>>
    /\ \/ /\ faults < MaxFaults
          /\ faults' = faults + 1
          /\ Exit("enumerr")
          /\ UNCHANGED <<targetDirs, idx>>
       \/ \E e \in Enumerations :
              /\ faults' = faults
              /\ targetDirs' = e
              /\ IF Len(e) = 0
                 THEN Exit("nodirs") /\ idx' = idx
                 ELSE pc' = "loop" /\ idx' = 1 /\ outcome' = outcome

AfterLoop == IF req.remove THEN "cleanup" ELSE "rootlinks"

\* A loop that stops at the first repository that fails.
ProcessDir_StopOnError ==
    /\ UNCHANGED <<mirror, dangling>>
    /\ pc = "loop"
    /\ idx <= Len(targetDirs)
    /\ LET dir == targetDirs[idx]
           wt == getWorktreePath(RepoDir(dir), folderName)
       IN  \E r \in (IF req.remove
                     THEN removeWorktree(fs[Base(Dir(wt))], Base(wt))
                     ELSE createWorktree(fs[Base(Dir(wt))], Base(wt), branchName)) :
               /\ faults + r.n <= MaxFaults
               /\ faults' = faults + r.n
               /\ fs' = [fs EXCEPT ![Base(Dir(wt))] = r.dir]
               /\ ops' = r.ops
               /\ visited' = Append(visited, dir)
               /\ failed' = IF r.err THEN failed \cup {dir} ELSE failed
               /\ pc' = IF r.err \/ idx + 1 > Len(targetDirs) THEN AfterLoop ELSE "loop"
    /\ idx' = idx + 1
    /\ UNCHANGED <<doc, root, now, userFiles, req, config, folderName, branchName,
                   targetDirs, outcome, saved, snap>>

\* main, lines 157-167: one repository of the loop.
ProcessDir ==
    /\ UNCHANGED <<mirror, dangling>>
    /\ pc = "loop"
    /\ idx <= Len(targetDirs)
    /\ LET dir == targetDirs[idx]
           wt == getWorktreePath(RepoDir(dir), folderName)
       IN  \E r \in (IF req.remove
                     THEN removeWorktree(fs[Base(Dir(wt))], Base(wt))
                     ELSE createWorktree(fs[Base(Dir(wt))], Base(wt), branchName)) :
               /\ faults + r.n <= MaxFaults
               /\ faults' = faults + r.n
               /\ fs' = [fs EXCEPT ![Base(Dir(wt))] = r.dir]
               /\ ops' = r.ops
               /\ visited' = Append(visited, dir)
               /\ failed' = IF r.err THEN failed \cup {dir} ELSE failed
    /\ idx' = idx + 1
    /\ pc' = IF idx' > Len(targetDirs) THEN AfterLoop ELSE "loop"
    /\ UNCHANGED <<doc, root, now, userFiles, req, config, folderName, branchName,
                   targetDirs, outcome, saved, snap>>

\* main, lines 169-176: cleanupFolderDir on the folder alias directory.
Cleanup ==
    /\ UNCHANGED mirror
    /\ pc = "cleanup"
    /\ \E r \in cleanupFolderDir(fs[folderName], StatEntries(root, doc, dangling)) :
           /\ faults + r.n <= MaxFaults
           /\ faults' = faults + r.n
           /\ fs' = [fs EXCEPT ![folderName] = r.dir]
           /\ root' = root \cup r.moved
           /\ dangling' = dangling \ r.moved
           /\ ops' = r.ops
    /\ pc' = "rmdir"
    /\ UNCHANGED <<doc, now, userFiles, run, outcome, snap>>

\* The folder alias directory removed with what it holds.
RemoveFolderDir_RemoveAll ==
    /\ UNCHANGED <<mirror, dangling>>
    /\ pc = "rmdir"
    /\ LET d == fs[folderName]
       IN  IF d.exists
           THEN \/ /\ fs' = [fs EXCEPT ![folderName] = NoDir]
                   /\ ops' = <<Ev("rmdir", "", folderName, TRUE)>>
                   /\ faults' = faults
                \/ /\ faults < MaxFaults
                   /\ faults' = faults + 1
                   /\ fs' = fs
                   /\ ops' = <<Ev("rmdir", "", folderName, FALSE)>>
           ELSE fs' = fs /\ ops' = << >> /\ faults' = faults
    /\ pc' = "deact"
    /\ UNCHANGED <<doc, root, now, userFiles, run, outcome, snap>>

\* main, lines 178-188: the folder alias directory is removed when empty.
RemoveFolderDir ==
    /\ UNCHANGED <<mirror, dangling>>
    /\ pc = "rmdir"
    /\ LET d == fs[folderName]
       IN  IF d.exists /\ DOMAIN d.ents = {}
           THEN \/ /\ fs' = [fs EXCEPT ![folderName] = NoDir]
                   /\ ops' = <<Ev("rmdir", "", folderName, TRUE)>>
                   /\ faults' = faults
                \/ /\ faults < MaxFaults
                   /\ faults' = faults + 1
                   /\ fs' = fs
                   /\ ops' = <<Ev("rmdir", "", folderName, FALSE)>>
           ELSE fs' = fs /\ ops' = << >> /\ faults' = faults
    /\ pc' = "deact"
    /\ UNCHANGED <<doc, root, now, userFiles, run, outcome, snap>>

\* A removal run that deactivates the record in memory and ends without
\* saving the registry.
Deactivate_NotSaved ==
    /\ UNCHANGED <<mirror, dangling>>
    /\ pc = "deact"
    /\ config' = deactivateFolder(config, folderName, now)
    /\ saved' = "ok"
    /\ ops' = <<Ev("deactivate", "", folderName, TRUE), Ev("save", "", "", TRUE)>>
    /\ Exit("completed")
    /\ UNCHANGED <<doc, disk, env, req, folderName, branchName, targetDirs, idx,
                   visited, failed, snap>>

\* main, lines 190-196: deactivateFolder, then saveConfig.
Deactivate ==
    /\ UNCHANGED <<mirror, dangling>>
    /\ pc = "deact"
    /\ config' = deactivateFolder(config, folderName, now)
    /\ \E s \in saveConfig(doc, config') :
           /\ faults + s.n <= MaxFaults
           /\ faults' = faults + s.n
           /\ doc' = s.doc
           /\ saved' = IF s.ok THEN "ok" ELSE "failed"
           /\ ops' = <<Ev("deactivate", "", folderName, TRUE), Ev("save", "", "", s.ok)>>
    /\ Exit("completed")
    /\ UNCHANGED <<disk, now, userFiles, req, folderName, branchName, targetDirs, idx,
                   visited, failed, snap>>

\* main, lines 199-205: symlinkRootFiles after the working trees are created.
RootLinks ==
    /\ UNCHANGED <<mirror, dangling>>
    /\ pc = "rootlinks"
    /\ \E r \in symlinkRootFiles(fs[folderName], RootEntries(root, doc), targetDirs) :
           /\ faults + r.n <= MaxFaults
           /\ faults' = faults + r.n
           /\ fs' = [fs EXCEPT ![folderName] = r.dir]
           /\ ops' = r.ops
    /\ Exit("completed")
    /\ UNCHANGED <<doc, root, now, userFiles, run, snap>>

\* The process is killed between two steps.
Crash ==
    /\ UNCHANGED <<mirror, dangling>>
    /\ pc # "done"
    /\ faults < MaxFaults
    /\ faults' = faults + 1
    /\ Exit("crashed")
    /\ UNCHANGED <<doc, disk, now, userFiles, run, ops, snap>>

\* Between two runs a user leaves a regular file in a folder alias directory;
\* the disk is then no longer as the last run left it.
UserAddsFile ==
    /\ UNCHANGED <<mirror, dangling>>
    /\ pc = "done"
    /\ outcome' = "none"
    /\ userFiles < MaxUserFiles
    /\ userFiles' = userFiles + 1
    /\ \E a \in Aliases, n \in UserNames :
           /\ fs[a].exists
           /\ n \notin DOMAIN fs[a].ents
           /\ fs' = [fs EXCEPT ![a].ents = With(@, {n}, File)]
    /\ UNCHANGED <<doc, root, now, faults, pc, run, ops, snap>>

Next ==
    \/ StartRun
    \/ Resolve
    \/ Gates
    \/ Commit
    \/ Enumerate
    \/ ProcessDir
    \/ Cleanup
    \/ RemoveFolderDir
    \/ Deactivate
    \/ RootLinks
    \/ Crash
    \/ UserAddsFile

Spec == Init /\ [][Next]_vars

\* ------------------------------------------------ the mirror passes alone

\* What a new working tree can hold at the ignored paths before the mirror
\* runs: nothing, or a regular file, a directory or a link.
TreeEnts == UNION {[S -> {"file", "dir", "link"}] : S \in SUBSET IgnoredPaths}

\* The ignore files a new working tree can have: none, one with a pattern of
\* the repository, one the tool has written before.
IgnoreFiles == {<< >>, <<"/build">>, <<"*.log", "", ExcludeHeader, "/build">>}

\* The folder alias directories symlinkRootFiles can find: absent, or with a
\* regular file, a directory or a link at the names of top-level entries.
FolderDirs ==
    {NoDir} \cup
    {[exists |-> TRUE, ents |-> e] :
        e \in UNION {[S -> {File, Link, Tree("b1")}] :
                        S \in SUBSET {"tools", configFileName}}}

\* The passes are applied to a working tree and to a folder alias directory
\* drawn from these sets; the repositories A and B are the processed ones.
\* As in main, the mirrors of the working trees come before the root pass.
InitMirror ==
    /\ doc = Document(EmptyReg)
    /\ root = RootEntries0
    /\ dangling = {}
    /\ now = 0 /\ faults = 0 /\ userFiles = 0
    /\ pc = "loop" /\ req = NoReq /\ config = EmptyReg
    /\ folderName = "b1" /\ branchName = "b1"
    /\ targetDirs = <<"A", "B">> /\ idx = 0
    /\ outcome = "none" /\ saved = "none"
    /\ visited = << >> /\ failed = {} /\ ops = << >>
    /\ doc0 = doc /\ root0 = root
    /\ mcall = NoCall
    /\ \/ /\ tree \in {WorkTree(e, i, FALSE) : e \in TreeEnts, i \in IgnoreFiles}
          /\ fs = [a \in Aliases |-> NoDir]
       \/ /\ tree \in {NoTree, WorkTree([p \in {"build"} |-> "file"], << >>, FALSE)}
          /\ \E d \in FolderDirs : fs = [a \in Aliases |-> IF a = "b1" THEN d ELSE NoDir]
    /\ tree0 = tree
    /\ fs0 = fs

\* createIgnoredSymlinks on the working tree.  The listing of ignored items
\* either fails or gives a list; of the listed items some exist in the source,
\* and of those some cannot be linked; addToGitExclude has an outcome only
\* when it is called, that is when an item is linked.
MirrorPass ==
    /\ pc = "loop"
    /\ mcall.n < MaxPasses
    /\ \E items \in ItemLists, lsOk \in BOOLEAN, srcExists \in SUBSET IgnoredPaths,
          F \in SUBSET IgnoredPaths, exclude \in {"ok", "open", "write", "assume"} :
           /\ srcExists \subseteq Range(items)
           /\ F \subseteq srcExists
           /\ ~lsOk => items = << >> /\ exclude = "ok"
           /\ (srcExists \ F) \subseteq DOMAIN tree.ents => exclude = "ok"
           /\ LET r == createIgnoredSymlinks(tree, items, lsOk, srcExists, F, exclude)
              IN  /\ tree' = r.w
                  /\ tree0' = tree
                  /\ mcall' = [n |-> mcall.n + 1, items |-> items, lsOk |-> lsOk,
                               srcExists |-> srcExists, F |-> F, exclude |-> exclude,
                               err |-> r.err, linked |-> r.linked, errors |-> r.errors,
                               asked |-> r.asked]
    /\ UNCHANGED <<doc, disk, dangling, env, pc, run, outcome, ops, snap>>

\* symlinkRootFiles on the folder alias directory.
RootPass ==
    /\ pc \in {"loop", "rootlinks"}
    /\ pc' = "rootlinks"
    /\ Len(visited) < MaxPasses
    /\ \E r \in symlinkRootFiles(fs[folderName], RootEntries(root, doc), targetDirs) :
           /\ fs' = [fs EXCEPT ![folderName] = r.dir]
           /\ fs0' = fs
           /\ ops' = r.ops
           /\ outcome' = IF r.err THEN "error" ELSE "ok"
    /\ visited' = Append(visited, "root")
    /\ UNCHANGED <<doc, root, dangling, env, req, config, folderName, branchName,
                   targetDirs, idx, saved, failed, doc0, root0, mirror>>

NextMirror ==
    \/ MirrorPass
    \/ RootPass

SpecMirror == InitMirror /\ [][NextMirror]_vars

\* ------------------------------------------------ one run on a given document

\* The registry documents a run can find: none, one without the mapping field,
\* one with an empty mapping, one that does not parse, one with a record.
Documents ==
    {MissingDoc, NoFieldDoc, Document(EmptyReg), MalformedDoc,
     Document([a \in {"b1"} |-> FolderInfo("b1", 0, FALSE)])}

\* The last run the clock allows, on any of these documents.
InitDocs ==
    /\ doc \in Documents
    /\ fs = [a \in Aliases |-> NoDir]
    /\ root = RootEntries0
    /\ dangling = {}
    /\ now = MaxClock - 1
    /\ faults = 0 /\ userFiles = 0
    /\ pc = "done" /\ req = NoReq /\ config = EmptyReg
    /\ folderName = "" /\ branchName = ""
    /\ targetDirs = << >> /\ idx = 0
    /\ outcome = "none" /\ saved = "none"
    /\ visited = << >> /\ failed = {} /\ ops = << >>
    /\ doc0 = doc /\ fs0 = fs /\ root0 = root
    /\ tree = NoTree /\ tree0 = NoTree /\ mcall = NoCall

SpecDocs == InitDocs /\ [][Next]_vars

\* ------------------------------------------------ the paths of the working trees

\* The directories the -dirs option can name: children of the invocation
\* root, a directory below a child, a directory elsewhere (absolute).
DirArgs ==
    {[abs |-> FALSE, path |-> <<"A">>], [abs |-> FALSE, path |-> <<"B">>],
     [abs |-> FALSE, path |-> <<"sub", "A">>], [abs |-> FALSE, path |-> <<"sub", "B">>],
     [abs |-> TRUE, path |-> <<"srv", "A">>]}

\* main, lines 134-137: a relative directory is joined to the invocation root.
AbsDir(d) == IF d.abs THEN d.path ELSE Join(cwd, d.path)

\* main, lines 129-147: the directories to process, from -dirs or findGitDirs.
DirLists ==
    {<<AbsDir(d)>> : d \in DirArgs} \cup {<<AbsDir(d), AbsDir(e)>> : d, e \in DirArgs}
    \cup {<<RepoDir("A"), RepoDir("B")>>}

\* The loop of main over directories given by their paths: targetDirs holds
\* the paths, visited the working-tree paths computed so far.
InitPaths ==
    /\ doc = MissingDoc
    /\ fs = [a \in Aliases |-> NoDir]
    /\ root = RootEntries0
    /\ dangling = {}
    /\ now = 0 /\ faults = 0 /\ userFiles = 0
    /\ pc = "loop" /\ req = NoReq /\ config = EmptyReg
    /\ folderName \in Aliases /\ branchName = "b1"
    /\ targetDirs \in DirLists /\ idx = 1
    /\ outcome = "running" /\ saved = "none"
    /\ visited = << >> /\ failed = {} /\ ops = << >>
    /\ doc0 = doc /\ fs0 = fs /\ root0 = root
    /\ tree = NoTree /\ tree0 = NoTree /\ mcall = NoCall

\* createWorktree/removeWorktree, first lines: the path of the working tree.
PathStep ==
    /\ pc = "loop"
    /\ idx <= Len(targetDirs)
    /\ visited' = Append(visited, getWorktreePath(targetDirs[idx], folderName))
    /\ idx' = idx + 1
    /\ UNCHANGED <<doc, disk, dangling, env, pc, req, config, folderName, branchName,
                   targetDirs, saved, failed, outcome, ops, snap, mirror>>

NextPaths == PathStep

SpecPaths == InitPaths /\ [][NextPaths]_vars

\* ------------------------------------------------ one run with leftover files

\* The folder alias directory of alias b1 as a create run on A and B and the
\* users leave it: the two working trees, the links to the root entries, and
\* regular files under the names users choose (a file named tools where the
\* link to tools was not made).
LeftoverDirs ==
    UNION {
        {[exists |-> TRUE,
          ents |-> With(With(With([n \in {} |-> File], Repos, Tree("b1")), L, Link),
                        U, File)] :
            U \in SUBSET (UserNames \ L)} :
        L \in {{configFileName}, {configFileName, "tools"}}}

\* The last run the clock allows, with alias b1 active for branch b1.  The
\* invocation root may hold an entry named notes, a file or a symbolic link
\* whose target is missing; the entries named notes in a folder alias
\* directory are regular files, which rename(2) puts in the place of a link.
InitRelocate ==
    /\ doc = Document([a \in {"b1"} |-> FolderInfo("b1", 1, TRUE)])
    /\ fs \in {[a \in Aliases |-> IF a = "b1" THEN d ELSE NoDir] : d \in LeftoverDirs}
    /\ root \in {RootEntries0, RootEntries0 \cup {"notes"}}
    /\ dangling \in SUBSET (root \cap {"notes"})
    /\ now = MaxClock - 1
    /\ faults = 0 /\ userFiles = 0
    /\ pc = "done" /\ req = NoReq /\ config = EmptyReg
    /\ folderName = "" /\ branchName = ""
    /\ targetDirs = << >> /\ idx = 0
    /\ outcome = "none" /\ saved = "none"
    /\ visited = << >> /\ failed = {} /\ ops = << >>
    /\ doc0 = doc /\ fs0 = fs /\ root0 = root
    /\ tree = NoTree /\ tree0 = NoTree /\ mcall = NoCall

SpecRelocate == InitRelocate /\ [][Next]_vars

\* ------------------------------------------------------------- properties

\* The registry the current run loaded when it started.
config0 == loadConfig(doc0)

\* A create (removal) run is in progress or has just ended.
CreateRun == ~req.list /\ ~req.remove /\ outcome # "none"
RemoveRun == ~req.list /\ req.remove /\ outcome # "none"
RunEnded == pc = "done" /\ outcome # "none"

ActiveFor(c, a, b) == a \in DOMAIN c /\ c[a].isActive /\ c[a].branch = b

HasTree(d, dir) == d.exists /\ dir \in DOMAIN d.ents /\ d.ents[dir].kind = "tree"

OneAliasPerBranch(c) ==
    \A a1, a2 \in DOMAIN c :
        (a1 # a2 /\ c[a1].isActive /\ c[a2].isActive) => c[a1].branch # c[a2].branch

\* C1: after any sequence of create requests (explicit alias, reuse of the
\* active record, alias chosen through selection) and remove requests, no two
\* distinct aliases are active with the same branch, neither in the in-memory
\* registry nor in the persisted document.
C1_OneActiveAliasPerBranch ==
    OneAliasPerBranch(config) /\ OneAliasPerBranch(doc.folders)

\* Two aliases are active at once (for different branches) after a create run.
C1_Witness ==
    /\ CreateRun /\ pc = "done" /\ outcome = "completed"
    /\ \E a1, a2 \in DOMAIN doc.folders :
           a1 # a2 /\ doc.folders[a1].isActive /\ doc.folders[a2].isActive

\* C2: a create request for (a, b) that finds a active for b in the registry
\* it loads (a given explicitly, or found by the active-record lookup) is a
\* no-op: it ends with the success exit of the exact-match gate, performs no
\* createWorktree and no mirror pass, and leaves the registry (a's lastUsed
\* included), the persisted document and the disk as they were.
C2_RepeatedCreateIsNoOp ==
    (/\ CreateRun
     /\ req.branch # ""
     /\ \E a \in DOMAIN config0 :
            /\ ActiveFor(config0, a, req.branch)
            /\ req.folder \in {a, ""})
    => /\ pc \in {"resolve", "gates", "done"}
       /\ config = config0 /\ doc = doc0 /\ fs = fs0 /\ root = root0
       /\ visited = << >> /\ saved = "none" /\ ops = << >>
       /\ pc = "done" => outcome \in {"noop", "crashed"}
       /\ outcome = "noop" => ActiveFor(config, folderName, req.branch)

\* A create run ended at the exact-match gate, for an alias found by the lookup.
C2_Witness ==
    /\ CreateRun /\ pc = "done" /\ outcome = "noop"
    /\ req.folder = "" /\ folderName # branchName
    /\ config0[folderName].lastUsed < now

\* C3: when a1 is active for b, a create request that resolves to another
\* alias a2 for b is refused with an error naming a1, and the run ends with
\* the in-memory registry, the persisted document and the disk unchanged: no
\* touchFolder, no saveConfig, no createWorktree, no mirror.
C3_ConflictRefused ==
    \A a1 \in DOMAIN config0 :
        (/\ CreateRun
         /\ folderName # "" /\ folderName # a1
         /\ ActiveFor(config0, a1, branchName))
        => /\ pc \in {"gates", "done"}
           /\ config = config0 /\ doc = doc0 /\ fs = fs0 /\ root = root0
           /\ visited = << >> /\ saved = "none"
           /\ pc = "done" => outcome \in {"conflict", "crashed"}
           /\ outcome = "conflict" => ops = <<Ev("error", "", a1, FALSE)>>

\* A create run was refused because its branch is active under another alias.
C3_Witness ==
    /\ CreateRun /\ pc = "done" /\ outcome = "conflict"
    /\ \E a1 \in DOMAIN config : a1 # folderName /\ ActiveFor(config, a1, branchName)
    /\ HasTree(fs[CHOOSE a1 \in DOMAIN config : ActiveFor(config, a1, branchName)], "A")

\* C4: when a create run stopped after the registry was persisted with the
\* alias active for the branch but before every repository had its working
\* tree, re-running the same create request brings the disk to the state where
\* every enumerated repository has its working tree under the alias.  Stated
\* on the end of the re-run: a create run that found the alias active for the
\* branch with some but not all working trees on disk, and that ended without
\* a failure, ends with every repository's working tree in place.
C4_RerunCreatesMissingTrees ==
    (/\ CreateRun /\ pc = "done" /\ outcome \in {"noop", "completed"}
     /\ failed = {}
     /\ ActiveFor(config0, folderName, branchName)
     /\ \E dir \in Repos : HasTree(fs0[folderName], dir))
    => \A dir \in Repos : HasTree(fs[folderName], dir)

\* The second run of a behaviour repeats the create request of the first, which
\* persisted the binding and left a working tree missing; it ends at the
\* exact-match gate and the working tree is still missing.
C4_Witness ==
    /\ now = 2
    /\ CreateRun /\ pc = "done" /\ outcome = "noop"
    /\ ActiveFor(config0, folderName, branchName)
    /\ ~HasTree(fs[folderName], "A") /\ HasTree(fs[folderName], "B")

C6_Resumes ==
    \A a \in DOMAIN config0 :
        (/\ RemoveRun
         /\ req.folder = "" /\ req.branch # ""
         /\ ActiveFor(config0, a, req.branch)
         /\ folderName # "")
        => /\ folderName = a
           /\ \A dir \in Range(visited) :
                  /\ dir \notin DOMAIN fs0[a].ents => dir \notin failed
                  /\ dir \notin failed => dir \notin DOMAIN fs[a].ents

\* The document of a removal run changes only when the run completes.
C6_ActiveUntilDone ==
    RemoveRun =>
        /\ pc \in {"cleanup", "rmdir", "deact"} => visited = targetDirs
        /\ (doc # doc0 \/ saved # "none")
              => pc = "done" /\ outcome = "completed" /\ visited = targetDirs

\* The steps after the loop of a removal run, in their order.
C6_Order ==
    /\ pc' = "cleanup" => pc = "loop"
    /\ pc' = "rmdir" => pc = "cleanup"
    /\ pc' = "deact" => pc = "rmdir"
    /\ (req.remove /\ doc' # doc) => pc = "deact"

\* C6: in a removal run the persisted record stays as it was (active) until
\* removeWorktree has been attempted for every enumerated repository and the
\* cleanup has run: the deactivation is the last step.  A removal request for
\* a branch whose record is still active (a run interrupted earlier leaves it
\* so) resolves to the same alias through the active-record lookup, removes
\* the working trees that remain and takes the absent ones as success.
C6_RemovalResumes ==
    [](C6_Resumes /\ C6_ActiveUntilDone) /\ [][C6_Order]_vars

\* A removal run for a branch, resolved by the lookup to a custom alias, found
\* the first working tree already removed and removed the one that remained.
C6_Witness ==
    /\ RemoveRun /\ pc = "done" /\ outcome = "completed" /\ failed = {}
    /\ req.folder = "" /\ folderName # branchName
    /\ ActiveFor(config0, folderName, branchName)
    /\ ~HasTree(fs0[folderName], "A") /\ HasTree(fs0[folderName], "B")
    /\ ~fs[folderName].exists
    /\ ~config[folderName].isActive

\* C7: at the end of every completed create or remove run, for every alias in
\* the registry, isActive is true exactly when the alias's working trees exist
\* on disk: an active record has a working tree for each processed repository
\* and an inactive record has none, also when createWorktree or removeWorktree
\* calls failed during the run.
C7_ActiveIffTreesExist ==
    (RunEnded /\ outcome = "completed")
    => \A a \in DOMAIN config :
           IF config[a].isActive
           THEN \A dir \in Range(targetDirs) : HasTree(fs[a], dir)
           ELSE \A dir \in Range(targetDirs) : ~HasTree(fs[a], dir)

\* A completed create run in which createWorktree failed for a repository:
\* the record is active and the repository has no working tree.
C7_Witness ==
    /\ CreateRun /\ pc = "done" /\ outcome = "completed"
    /\ failed = {"A"}
    /\ config[folderName].isActive /\ doc = Document(config)
    /\ ~HasTree(fs[folderName], "A")

\* C8: the set of aliases of the registry never shrinks: a run ends with every
\* alias it loaded still a key, in memory and in the persisted document
\* (whenever a document was written whole), and a deactivation of alias a
\* leaves a's branch as its last activation recorded it, sets isActive to
\* false and leaves the other records as they were.
C8_AliasesNeverDeleted ==
    /\ DOMAIN config0 \subseteq DOMAIN config
    /\ doc.kind # "malformed" => DOMAIN doc0.folders \subseteq DOMAIN doc.folders
    /\ (RemoveRun /\ saved # "none")
          => \A a \in DOMAIN config0 :
                 /\ config[a].branch = config0[a].branch
                 /\ a = folderName => ~config[a].isActive /\ config[a].lastUsed = now
                 /\ a # folderName => config[a] = config0[a]

\* A completed removal deactivated a custom alias next to another record: both
\* keys are in the persisted document and the branch is still recorded.
C8_Witness ==
    /\ RemoveRun /\ pc = "done" /\ outcome = "completed" /\ saved = "ok"
    /\ ActiveFor(config0, folderName, branchName) /\ folderName # branchName
    /\ Cardinality(DOMAIN doc.folders) = 2
    /\ doc.folders[folderName] = FolderInfo(branchName, now, FALSE)

\* C9: an activation (the commit of a create run) of an alias that is a key of
\* the registry, dormant and maybe recorded for another branch, yields the
\* record with the requested branch, isActive true and a later lastUsed, and
\* leaves the number of keys unchanged; an activation of an alias that is not
\* a key adds exactly that key.
C9_Activation ==
    (CreateRun /\ saved # "none")
    => /\ folderName \in DOMAIN config
       /\ config[folderName] = FolderInfo(branchName, now, TRUE)
       /\ \A a \in DOMAIN config0 : a # folderName => config[a] = config0[a]
       /\ IF folderName \in DOMAIN config0
          THEN /\ DOMAIN config = DOMAIN config0
               /\ config0[folderName].lastUsed < config[folderName].lastUsed
          ELSE /\ DOMAIN config = DOMAIN config0 \cup {folderName}
               /\ Cardinality(DOMAIN config) = Cardinality(DOMAIN config0) + 1

\* A dormant alias recorded for one branch has been activated for another.
C9_Witness ==
    /\ CreateRun /\ saved = "ok"
    /\ folderName \in DOMAIN config0
    /\ ~config0[folderName].isActive
    /\ config0[folderName].branch # branchName
    /\ doc.folders[folderName] = FolderInfo(branchName, now, TRUE)

\* The result of createWorktree on an existing target path.
AlreadyExists(d, dir) ==
    [dir |-> d, err |-> FALSE, n |-> 0, ops |-> <<Ev("exists", dir, "", TRUE)>>]

\* C10: a second createWorktree with the arguments of a first one that
\* succeeded returns no error, issues no add operation and no mirror, and
\* leaves the one working tree of the first call at the target path; whenever
\* the target path exists createWorktree returns success without any
\* version-control operation and without touching the path, whatever branch is
\* requested.
C10_CreateWorktreeIdempotent ==
    /\ \A a \in Aliases, dir \in Repos, b \in Branches :
           (fs[a].exists /\ dir \in DOMAIN fs[a].ents)
           => createWorktree(fs[a], dir, b) = {AlreadyExists(fs[a], dir)}
    /\ (CreateRun /\ pc = "loop") =>
           \A r \in createWorktree(fs[folderName], targetDirs[idx], branchName) :
               ~r.err => /\ HasTree(r.dir, targetDirs[idx])
                         /\ createWorktree(r.dir, targetDirs[idx], branchName)
                                = {AlreadyExists(r.dir, targetDirs[idx])}
    /\ CreateRun =>
           \A i \in DOMAIN visited :
               (fs0[folderName].exists /\ visited[i] \in DOMAIN fs0[folderName].ents)
               => /\ visited[i] \notin failed
                  /\ fs[folderName].ents[visited[i]] = fs0[folderName].ents[visited[i]]
                  /\ (i = Len(visited) /\ pc \in {"loop", "rootlinks"})
                        => ops = <<Ev("exists", visited[i], "", TRUE)>>

\* createWorktree has just found the working tree of another branch at its
\* target path and left it alone.
C10_Witness ==
    /\ CreateRun /\ pc = "loop" /\ visited = <<"A">>
    /\ ops = <<Ev("exists", "A", "", TRUE)>>
    /\ HasTree(fs[folderName], "A")
    /\ fs[folderName].ents["A"].branch # branchName

\* The result of removeWorktree on an absent target path.
AlreadyAbsent(d, dir) ==
    [dir |-> d, err |-> FALSE, n |-> 0, ops |-> <<Ev("absent", dir, "", TRUE)>>]

\* C11: removeWorktree for a target path that does not exist returns success,
\* issues no version-control removal, plain or forced, and leaves the disk
\* unchanged.
C11_RemoveAbsentIsNoOp ==
    /\ \A a \in Aliases, dir \in Repos :
           ~(fs[a].exists /\ dir \in DOMAIN fs[a].ents)
           => removeWorktree(fs[a], dir) = {AlreadyAbsent(fs[a], dir)}
    /\ RemoveRun =>
           \A i \in DOMAIN visited :
               ~(fs0[folderName].exists /\ visited[i] \in DOMAIN fs0[folderName].ents)
               => /\ visited[i] \notin failed
                  /\ visited[i] \notin DOMAIN fs[folderName].ents
                  /\ (i = Len(visited) /\ pc \in {"loop", "cleanup"})
                        => /\ ops = <<Ev("absent", visited[i], "", TRUE)>>
                           /\ i = 1 => fs = fs0

\* removeWorktree has just found no working tree for the first repository
\* under an alias that still holds the working tree of the second.
C11_Witness ==
    /\ RemoveRun /\ pc = "loop" /\ visited = <<"A">>
    /\ ops = <<Ev("absent", "A", "", TRUE)>>
    /\ failed = {}
    /\ HasTree(fs[folderName], "B")

\* The add operations among the operations of a step.
AddsOf(o) == SelectSeq(o, LAMBDA e : e.op = "add")

\* The add operation the priority local > remote > new chooses.
AddByPriority(state) ==
    CASE state \in {"local", "local+remote"} -> "attach"
      [] state = "remote" -> "track"
      [] state = "none" -> "new"

\* C12: for every combination of (the branch exists locally, the branch exists
\* on the default remote), createWorktree on a target path that does not exist
\* issues exactly one add operation: an attach to the local branch when it
\* exists locally, also when the remote has the branch too; otherwise a new
\* local branch tracking the remote one when it exists remotely; otherwise a
\* brand-new local branch.
C12_AddByPriority ==
    /\ (CreateRun /\ pc \in {"loop", "rootlinks"} /\ Len(ops) >= 3)
          => /\ Len(AddsOf(ops)) = 1
             /\ ops[2].op = "refs" /\ ops[3].op = "add"
             /\ ops[3].arg = AddByPriority(ops[2].arg)
    /\ (CreateRun /\ pc = "loop") =>
        LET d == fs[folderName]
            dir == targetDirs[idx]
        IN  ~(d.exists /\ dir \in DOMAIN d.ents) =>
                /\ \A r \in createWorktree(d, dir, branchName) :
                       \/ r.ops = <<Ev("mkdir", dir, "", FALSE)>>
                       \/ /\ Len(AddsOf(r.ops)) = 1
                          /\ r.ops[1] = Ev("mkdir", dir, "", TRUE)
                          /\ r.ops[2].op = "refs"
                          /\ r.ops[3].op = "add"
                          /\ r.ops[3].arg = AddByPriority(r.ops[2].arg)
                /\ \A state \in {"local", "local+remote", "remote", "none"}, ok \in BOOLEAN :
                       \E r \in createWorktree(d, dir, branchName) :
                           /\ Len(r.ops) >= 3
                           /\ r.ops[2] = Ev("refs", dir, state, TRUE)
                           /\ r.ops[3] = Ev("add", dir, AddByPriority(state), ok)

\* createWorktree has just attached a working tree to a local branch that the
\* remote has too.
C12_Witness ==
    /\ CreateRun /\ pc = "loop" /\ visited = <<"A">>
    /\ Len(ops) = 4
    /\ ops[2] = Ev("refs", "A", "local+remote", TRUE)
    /\ ops[3] = Ev("add", "A", "attach", TRUE)
    /\ HasTree(fs[folderName], "A")

\* The removal operations of one removeWorktree call on an existing path: a
\* plain removal first, a forced one exactly when the plain one failed, no
\* third one; err tells whether both failed.
PlainThenForce(o, dir, err) ==
    /\ Len(o) \in {1, 2}
    /\ o[1].op = "remove" /\ o[1].repo = dir /\ o[1].arg = "plain"
    /\ Len(o) = 2 <=> ~o[1].ok
    /\ Len(o) = 2 => o[2].op = "remove" /\ o[2].repo = dir /\ o[2].arg = "force"
    /\ err <=> (Len(o) = 2 /\ ~o[2].ok)

\* C13: removeWorktree on an existing target path attempts a plain removal
\* first; the forced removal is attempted exactly once and only after the
\* plain removal failed; the call returns an error if and only if both
\* removals failed, and it never attempts more than two removals.
C13_PlainThenForce ==
    /\ (RemoveRun /\ pc = "loop") =>
           LET d == fs[folderName]
               dir == targetDirs[idx]
           IN  (d.exists /\ dir \in DOMAIN d.ents) =>
                   \A r \in removeWorktree(d, dir) :
                       /\ PlainThenForce(r.ops, dir, r.err)
                       /\ r.err => r.dir = d
                       /\ ~r.err => dir \notin DOMAIN r.dir.ents
    /\ (RemoveRun /\ pc \in {"loop", "cleanup"} /\ visited # << >>) =>
           LET dir == visited[Len(visited)]
           IN  (fs0[folderName].exists /\ dir \in DOMAIN fs0[folderName].ents) =>
                   /\ PlainThenForce(ops, dir, dir \in failed)
                   /\ dir \in failed <=> dir \in DOMAIN fs[folderName].ents

\* A plain removal has just failed and the forced removal has removed the
\* working tree.
C13_Witness ==
    /\ RemoveRun /\ pc = "loop" /\ visited = <<"A">> /\ failed = {}
    /\ ops = <<Ev("remove", "A", "plain", FALSE), Ev("remove", "A", "force", TRUE)>>
    /\ HasTree(fs0[folderName], "A") /\ "A" \notin DOMAIN fs[folderName].ents

\* C14: in every create or remove run every enumerated repository is
\* processed exactly once, in enumeration order, whatever fails: the loop has
\* visited the repositories before its position, in order, a run past the loop
\* has visited all of them, failed or not, and the working trees the run
\* created stay when a later repository fails.
C14_EveryRepositoryProcessed ==
    (CreateRun \/ RemoveRun) =>
        /\ failed \subseteq Range(visited)
        /\ Len(visited) <= Len(targetDirs)
        /\ visited = SubSeq(targetDirs, 1, Len(visited))
        /\ pc = "loop" => Len(visited) = idx - 1 /\ idx <= Len(targetDirs)
        /\ (pc \in {"cleanup", "rmdir", "deact", "rootlinks"}
               \/ (pc = "done" /\ outcome = "completed"))
              => visited = targetDirs /\ targetDirs # << >>
        /\ CreateRun =>
               \A dir \in Range(visited) : dir \notin failed => HasTree(fs[folderName], dir)
        /\ RemoveRun =>
               \A dir \in Range(visited) :
                   dir \notin failed => dir \notin DOMAIN fs[folderName].ents

\* A create run completed after createWorktree failed for the first
\* repository: the second one was processed and has its working tree.
C14_Witness ==
    /\ CreateRun /\ pc = "done" /\ outcome = "completed"
    /\ failed = {"A"} /\ visited = <<"A", "B">>
    /\ ~HasTree(fs[folderName], "A") /\ HasTree(fs[folderName], "B")
    /\ ~HasTree(fs0[folderName], "B")

\* The mirror operations among the operations of a step.
MirrorsOf(o) == SelectSeq(o, LAMBDA e : e.op = "mirror")

\* The operations of one createWorktree call run the ignored-item mirror once
\* after an add that succeeded, and not otherwise.
MirrorIffAdded(o) ==
    LET adds == AddsOf(o)
    IN  /\ Len(MirrorsOf(o)) = IF Len(adds) = 1 /\ adds[1].ok THEN 1 ELSE 0
        /\ Len(MirrorsOf(o)) = 1 => o[Len(o)].op = "mirror" /\ o[Len(o) - 1].op = "add"

\* C15: createWorktree runs the ignored-item mirror for a repository if and
\* only if the add operation of this call succeeded (not on the already-exists
\* no-op, not after a failed add or a failed directory creation), and a failure
\* of the mirror does not change the result: the call returns success and the
\* working tree stays.
C15_MirrorIffAdded ==
    /\ (CreateRun /\ pc = "loop") =>
           LET d == fs[folderName]
               dir == targetDirs[idx]
           IN  \A r \in createWorktree(d, dir, branchName) :
                   /\ MirrorIffAdded(r.ops)
                   /\ Len(MirrorsOf(r.ops)) = 1 => ~r.err /\ HasTree(r.dir, dir)
                   /\ (Len(AddsOf(r.ops)) = 1 /\ ~AddsOf(r.ops)[1].ok) => r.err
    /\ (CreateRun /\ pc \in {"loop", "rootlinks"} /\ visited # << >>) =>
           /\ MirrorIffAdded(ops)
           /\ Len(MirrorsOf(ops)) = 1 =>
                  /\ visited[Len(visited)] \notin failed
                  /\ HasTree(fs[folderName], visited[Len(visited)])

\* The mirror has just failed after a successful add: the repository is not
\* counted as failed and has its working tree.
C15_Witness ==
    /\ CreateRun /\ pc = "loop" /\ visited = <<"A">> /\ failed = {}
    /\ Len(ops) = 4
    /\ ops[3].op = "add" /\ ops[3].ok
    /\ ops[4] = Ev("mirror", "A", "", FALSE)
    /\ HasTree(fs[folderName], "A")

\* ------------------------------------------------ the mirroring passes

MirrorRan == mcall.n > 0
RootRan == pc = "rootlinks" /\ visited # << >>

\* The top-level entries symlinkRootFiles does not skip by name.
RootCandidates == {n \in RootEntries(root, doc) : n # ".git" /\ n \notin Range(targetDirs)}

\* C16: in both mirroring passes, what already exists at the destination of an
\* item (a link, a regular file or a directory) is left as it is, no link is
\* made over it, and no error is recorded for it: an error of the pass always
\* comes from the listing or from an item whose destination was absent.
C16_ExistingDestinationUntouched ==
    /\ MirrorRan =>
           /\ \A p \in DOMAIN tree0.ents :
                  /\ p \in DOMAIN tree.ents /\ tree.ents[p] = tree0.ents[p]
                  /\ p \notin Range(mcall.linked)
                  /\ p \notin Range(mcall.errors)
           /\ (mcall.err /\ mcall.lsOk) =>
                  \E p \in Range(mcall.errors) : p \notin DOMAIN tree0.ents
    /\ RootRan =>
           LET before == fs0[folderName].ents
               after == fs[folderName].ents
           IN  /\ \A n \in DOMAIN before : n \in DOMAIN after /\ after[n] = before[n]
               /\ (outcome = "error" /\ ops[1].arg # "readdir") =>
                      \E n \in RootCandidates \ DOMAIN before : n \notin DOMAIN after

\* Both passes have run without an error over destinations that held a regular
\* file: the file is still there, and the other items are linked.
C16_Witness ==
    /\ MirrorRan /\ RootRan
    /\ mcall.items = <<"build", "out/tmp.bin">> /\ mcall.srcExists = IgnoredPaths
    /\ ~mcall.err /\ mcall.linked = <<"out/tmp.bin">>
    /\ tree0.ents = [p \in {"build"} |-> "file"]
    /\ tree.ents = [p \in IgnoredPaths |-> IF p = "build" THEN "file" ELSE "link"]
    /\ outcome = "ok"
    /\ fs0[folderName].ents = [n \in {"tools"} |-> File]
    /\ fs[folderName].ents = [n \in {"tools", configFileName} |-> IF n = "tools" THEN File ELSE Link]

\* How often a line occurs in an ignore file.
Count(lines, line) == Cardinality({i \in DOMAIN lines : lines[i] = line})

\* The last mirror pass listed the ignored items, all of them exist in the
\* source, and nothing failed in it.
MirrorClean ==
    /\ MirrorRan /\ mcall.lsOk
    /\ mcall.srcExists = Range(mcall.items)
    /\ mcall.F = {} /\ mcall.exclude = "ok"

\* C17 as stated: after a mirror pass in which nothing failed, every ignored
\* path is a link in the working tree and the ignore file has its anchored
\* pattern exactly once.
C17_EveryIgnoredPathLinked ==
    MirrorClean =>
        \A p \in Range(mcall.items) :
            /\ p \in DOMAIN tree.ents /\ tree.ents[p] = "link"
            /\ Count(tree.ignore, Pattern(p)) = 1

\* C17: after a mirror pass, every listed path that exists in the source, had
\* nothing at its destination and whose link could be made is a link in the
\* working tree, and when the ignore file could be opened and written its anchored
\* pattern is in the ignore file exactly once; for every other listed path the
\* tree and the number of its patterns are as before.  Running the mirror
\* again with the same listing links only paths whose link failed before; when
\* none failed it changes nothing, and no pattern is ever in the file twice.
C17_MirrorLinksAbsentPathsOnce ==
    (MirrorRan /\ mcall.lsOk) =>
        /\ Range(mcall.linked) =
               {p \in Range(mcall.items) :
                   p \in mcall.srcExists /\ p \notin DOMAIN tree0.ents /\ p \notin mcall.F}
        /\ \A p \in Range(mcall.linked) :
               /\ tree.ents[p] = "link"
               /\ mcall.exclude \in {"ok", "assume"} => Count(tree.ignore, Pattern(p)) = 1
        /\ \A p \in IgnoredPaths \ Range(mcall.linked) :
               /\ p \in DOMAIN tree.ents <=> p \in DOMAIN tree0.ents
               /\ p \in DOMAIN tree.ents => tree.ents[p] = tree0.ents[p]
               /\ Count(tree.ignore, Pattern(p)) = Count(tree0.ignore, Pattern(p))
        /\ \A F2 \in SUBSET mcall.srcExists, exclude2 \in {"ok", "open", "write", "assume"} :
               LET again == createIgnoredSymlinks(tree, mcall.items, TRUE,
                                                  mcall.srcExists, F2, exclude2)
               IN  /\ Range(again.linked) \subseteq Range(mcall.errors)
                   /\ mcall.errors = << >> => again.w = tree /\ ~again.err
                   /\ \A p \in IgnoredPaths : Count(again.w.ignore, Pattern(p)) <= 1

\* The mirror has run twice with the same listing on a tree that had nothing
\* at the two ignored paths: the first pass linked both and wrote both
\* patterns, the second linked nothing and left the ignore file as it was.
C17_Witness ==
    /\ mcall.n = 2 /\ MirrorClean
    /\ mcall.items = <<"build", "out/tmp.bin">>
    /\ mcall.linked = << >> /\ ~mcall.err
    /\ tree.ents = [p \in IgnoredPaths |-> "link"]
    /\ tree.ignore = <<"", ExcludeHeader, "/build", "/out/tmp.bin">>
    /\ tree.assumed
    /\ tree0 = tree

\* C18: after a root pass that returned no error, the entries the folder alias
\* directory has gained are links, one for exactly each top-level entry of the
\* invocation root that is not .git, is not the directory of a processed
\* repository and was not in the folder alias directory before; nothing is
\* added under an excluded name.
C18_RootLinksExactlyWanted ==
    (RootRan /\ outcome = "ok") =>
        LET before == fs0[folderName].ents
            after == fs[folderName].ents
            new == DOMAIN after \ DOMAIN before
        IN  /\ new = {n \in RootEntries(root, doc) :
                         /\ n # ".git"
                         /\ n \notin Range(targetDirs)
                         /\ n \notin DOMAIN before}
            /\ \A n \in new : after[n] = Link
            /\ new \cap ({".git"} \cup Range(targetDirs)) = {}

\* A root pass over an empty folder alias directory has linked the two
\* top-level entries that are neither .git nor a processed repository.
C18_Witness ==
    /\ RootRan /\ outcome = "ok" /\ Len(visited) = 1
    /\ fs0[folderName] = [exists |-> TRUE, ents |-> [n \in {} |-> Link]]
    /\ DOMAIN fs[folderName].ents = {"tools", configFileName}
    /\ \A n \in DOMAIN fs[folderName].ents : fs[folderName].ents[n] = Link
    /\ {"A", "B", ".git"} \subseteq RootEntries(root, doc)

\* The top-level entries a root pass over the folder alias directory d tries
\* to link.
Wanted(d) == RootCandidates \ DOMAIN d.ents

\* C19: in both mirroring passes, whatever subset of the items fails, every
\* other item whose destination is absent is linked, and the pass returns an
\* error if and only if at least one item failed.
C19_FailuresDoNotStopThePass ==
    /\ (MirrorRan /\ mcall.lsOk) =>
           LET tried == {p \in Range(mcall.items) :
                            p \in mcall.srcExists /\ p \notin DOMAIN tree0.ents}
           IN  /\ Range(mcall.errors) = tried \cap mcall.F
               /\ \A p \in tried \ mcall.F :
                      /\ p \in DOMAIN tree.ents /\ tree.ents[p] = "link"
                      /\ p \in Range(mcall.linked)
               /\ mcall.err <=> (tried \cap mcall.F # {})
    /\ (pc \in {"loop", "rootlinks"} /\ fs[folderName].exists) =>
           LET d == fs[folderName]
               results == {r \in symlinkRootFiles(d, RootEntries(root, doc), targetDirs) :
                              r.ops[1].arg # "readdir"}
           IN  /\ \A r \in results :
                      /\ Cardinality(Wanted(d) \ DOMAIN r.dir.ents) = r.n
                      /\ \A n \in Wanted(d) :
                             n \in DOMAIN r.dir.ents => r.dir.ents[n] = Link
                      /\ r.err <=> (r.n > 0)
               /\ \A F \in SUBSET (Wanted(d) \cap FailNames) :
                      \E r \in results : Wanted(d) \ DOMAIN r.dir.ents = F
    /\ (RootRan /\ ops[1].arg # "readdir") =>
           (outcome = "error" <=> Wanted(fs0[folderName]) \ DOMAIN fs[folderName].ents # {})

\* In each pass one item has failed and the other has been linked (in the
\* mirror pass the one listed after the failing one); both passes have
\* returned an error.
C19_Witness ==
    /\ MirrorRan /\ RootRan
    /\ mcall.items = <<"build", "out/tmp.bin">> /\ mcall.srcExists = IgnoredPaths
    /\ mcall.F = {"build"} /\ mcall.errors = <<"build">>
    /\ mcall.linked = <<"out/tmp.bin">> /\ mcall.err
    /\ tree0.ents = [p \in {} |-> ""]
    /\ tree.ents = [p \in {"out/tmp.bin"} |-> "link"]
    /\ outcome = "error" /\ ops = <<Ev("rootlinks", "", "", FALSE)>>
    /\ fs0[folderName] = [exists |-> TRUE, ents |-> [n \in {} |-> Link]]
    /\ fs[folderName].ents = [n \in {configFileName} |-> Link]

\* ------------------------------------------------ cleanup

\* The entries of a directory that are not links.
RegularEntries(d) == {n \in DOMAIN d.ents : d.ents[n].kind # "link"}

\* The answers after which cleanupFolderDir acts on the regular entries.
Disposing == {"delete", "relocate"}

\* C20: in the cleanup of the folder alias directory a regular entry leaves
\* the directory only after the answer 'delete' (it is removed) or 'relocate'
\* (it is moved to the invocation root, where no entry had its name); after
\* 'leave', a cancellation, an invalid answer or a failed read of the answer
\* every regular entry is still there, unchanged, and nothing is moved.
C20_RegularEntriesLeaveOnlyOnRequest ==
    /\ (RemoveRun /\ pc = "cleanup") =>
           LET d == fs[folderName]
               rootAll == StatEntries(root, doc, dangling)
           IN  \A r \in cleanupFolderDir(d, rootAll) :
                   LET choice == IF r.ops = << >> THEN "" ELSE r.ops[1].arg
                       gone == RegularEntries(d) \ DOMAIN r.dir.ents
                   IN  /\ \A n \in RegularEntries(d) \ gone : r.dir.ents[n] = d.ents[n]
                       /\ gone # {} => choice \in Disposing
                       /\ choice = "delete" => r.moved = {}
                       /\ choice = "relocate" => gone = r.moved /\ r.moved \cap rootAll = {}
                       /\ choice \notin Disposing => gone = {} /\ r.moved = {}
    /\ (RemoveRun /\ pc = "rmdir" /\ ops # << >> /\ ops[1].arg \notin Disposing) =>
           /\ \A n \in DOMAIN fs0[folderName].ents :
                  fs0[folderName].ents[n] = File =>
                      n \in DOMAIN fs[folderName].ents /\ fs[folderName].ents[n] = File
           /\ root = root0

\* The user has answered 'leave' in the cleanup of a folder alias directory
\* that holds a regular file: the file is still there after the cleanup.
C20_Witness ==
    /\ RemoveRun /\ pc = "rmdir"
    /\ ops = <<Ev("cleanup", "", "leave", TRUE)>>
    /\ "notes" \in DOMAIN fs0[folderName].ents /\ fs0[folderName].ents["notes"] = File
    /\ "notes" \in DOMAIN fs[folderName].ents /\ fs[folderName].ents["notes"] = File
    /\ \A n \in DOMAIN fs[folderName].ents : fs[folderName].ents[n].kind # "tree"

\* The entries of a directory that are links.
LinkEntries(d) == {n \in DOMAIN d.ents : d.ents[n].kind = "link"}

\* C21: after cleanupFolderDir on an existing folder alias directory in which
\* no removal failed, no link is left among its entries, whatever the answer
\* about the regular entries and whether or not there are regular entries; with
\* failures, at most as many links are left as removals failed.
C21_NoLinkLeftAfterCleanup ==
    /\ (RemoveRun /\ pc = "cleanup" /\ fs[folderName].exists) =>
           \A r \in cleanupFolderDir(fs[folderName], StatEntries(root, doc, dangling)) :
               /\ LinkEntries(r.dir) \subseteq LinkEntries(fs[folderName])
               /\ Cardinality(LinkEntries(r.dir)) <= r.n
               /\ r.n = 0 => LinkEntries(r.dir) = {}
    /\ (RemoveRun /\ pc = "rmdir" /\ faults = 0) => LinkEntries(fs[folderName]) = {}

\* The answer could not be read while a regular file was in the folder alias
\* directory: the links the directory had are gone, the file is there.
C21_Witness ==
    /\ RemoveRun /\ pc = "rmdir" /\ faults = 0
    /\ ops = <<Ev("cleanup", "", "readerr", TRUE)>>
    /\ LinkEntries(fs0[folderName]) # {}
    /\ LinkEntries(fs[folderName]) = {}
    /\ RegularEntries(fs[folderName]) = {"notes"}

\* The step of a removal run that follows the cleanup: a folder alias
\* directory that is not empty stays with its entries; an empty one is
\* removed, or stays when its removal fails; nothing else on disk changes.
C22_Step ==
    (RemoveRun /\ pc = "rmdir") =>
        LET d == fs[folderName]
        IN  /\ root' = root
            /\ \A a \in Aliases \ {folderName} : fs'[a] = fs[a]
            /\ IF d.exists /\ DOMAIN d.ents = {}
               THEN \/ fs'[folderName] = NoDir
                    \/ fs'[folderName] = d /\ faults' = faults + 1
               ELSE fs'[folderName] = d

\* Nothing on disk changes between that step and the end of the run.
C22_Rest == (RemoveRun /\ pc = "deact") => disk' = disk

\* A removal run that has come to its end without any failure has left no
\* empty folder alias directory.
C22_End ==
    (RemoveRun /\ RunEnded /\ outcome = "completed" /\ faults = 0 /\ fs[folderName].exists)
        => DOMAIN fs[folderName].ents # {}

\* C22: at the end of a removal run the folder alias directory has been
\* removed if and only if it was empty after the removals, the removal of the
\* links and the disposition (and its removal did not fail); a folder alias
\* directory that is not empty is never removed and keeps its entries.
C22_FolderDirRemovedIffEmpty == [][C22_Step /\ C22_Rest]_vars /\ []C22_End

\* A removal run has removed the folder alias directory that held two working
\* trees and links at its start.
C22_Witness ==
    /\ RemoveRun /\ RunEnded /\ outcome = "completed"
    /\ fs0[folderName].exists
    /\ {"A", "B"} \subseteq RegularEntries(fs0[folderName])
    /\ LinkEntries(fs0[folderName]) # {}
    /\ fs[folderName] = NoDir

\* ------------------------------------------------ cancellation

\* The registry document and the disk are as at the start of the run.
AsAtStart == doc = doc0 /\ fs = fs0 /\ root = root0

\* The decision about the leftover files has just been cancelled.
DispositionCancelled ==
    RemoveRun /\ pc = "rmdir" /\ ops = <<Ev("cleanup", "", "cancel", TRUE)>>

\* C23: a cancellation returned by the alias selection, the free-text alias
\* entry or the leftover-file disposition ends the run with the registry, its
\* document and the disk as they were at the start of the run.
C23_CancellationMutatesNothing ==
    /\ (RunEnded /\ outcome = "cancelled") => AsAtStart /\ config = config0
    /\ DispositionCancelled => AsAtStart /\ config = config0

\* The disposition has been cancelled after the run removed two working trees
\* and the links of the folder alias directory.
C23_Witness ==
    /\ DispositionCancelled
    /\ HasTree(fs0[folderName], "A") /\ HasTree(fs0[folderName], "B")
    /\ ~HasTree(fs[folderName], "A") /\ ~HasTree(fs[folderName], "B")
    /\ LinkEntries(fs0[folderName]) # {} /\ LinkEntries(fs[folderName]) = {}
    /\ RegularEntries(fs[folderName]) = {"notes"}

\* ------------------------------------------------ the alias of a removal

\* A removal run has resolved its alias.
RemovalResolved == RemoveRun /\ pc \notin {"resolve"} /\ outcome \notin {"cancelled", "usage"}

\* C24: the alias a removal run operates on is the explicitly given alias or
\* the alias of a record that was active for the requested branch at the start
\* of the run; no alias is derived by another rule.
C24_RemovalAliasFromRequestOrRecord ==
    RemovalResolved =>
        \/ req.folder # "" /\ folderName = req.folder
        \/ ActiveFor(config0, folderName, branchName)

\* A removal request for branch b2, which no record is active for, has been
\* carried out on the alias named b2, which was active for branch b1: its
\* working trees are removed and its record is deactivated.
C24_Witness ==
    /\ RemoveRun /\ RunEnded /\ outcome = "completed"
    /\ req.folder = "" /\ req.branch = "b2" /\ folderName = "b2"
    /\ ActiveFor(config0, "b2", "b1")
    /\ HasTree(fs0["b2"], "A") /\ ~HasTree(fs["b2"], "A")
    /\ "b2" \in DOMAIN config /\ ~config["b2"].isActive

\* ------------------------------------------------ loading the registry

\* C25: loadConfig gives the empty registry and no error for a missing
\* document and for a document whose mapping field is missing or empty; for a
\* document that does not parse it gives an error, and the run then ends
\* without a save and with the document and the disk as they were.
C25_LoadToleratesMissingNotMalformed ==
    /\ \A d \in Documents :
           /\ d.kind \in {"missing", "nofield"} => loadConfigOk(d) /\ loadConfig(d) = EmptyReg
           /\ d.kind = "ok" => loadConfigOk(d) /\ loadConfig(d) = d.folders
    /\ (outcome # "none" /\ doc0.kind \in {"missing", "nofield"}) =>
           /\ outcome # "loaderr"
           /\ pc = "resolve" => config = EmptyReg
    /\ (outcome # "none" /\ doc0.kind = "malformed") =>
           /\ pc = "done" /\ outcome = "loaderr"
           /\ saved = "none" /\ ops = << >>
           /\ doc = doc0 /\ fs = fs0 /\ root = root0

\* A create request has found a document that does not parse: the run has
\* ended with the load error and the document is as it was.
C25_Witness ==
    /\ pc = "done" /\ outcome = "loaderr"
    /\ ~req.list /\ ~req.remove /\ req.branch = "b1"
    /\ doc0 = MalformedDoc /\ doc = MalformedDoc
    /\ fs = fs0

\* ------------------------------------------------ the round trip

\* The registry has exactly one record, alias a for branch b.
OnlyRecord(c, a, b, act) ==
    DOMAIN c = {a} /\ c[a].branch = b /\ c[a].isActive = act

\* A run on the repositories A and B has come to its end and nothing has ever
\* failed.
CleanRunEnded ==
    /\ RunEnded /\ outcome = "completed" /\ faults = 0
    /\ targetDirs = <<"A", "B">>

\* C26: with no failures, activating alias f for branch b on the repositories
\* A and B from an empty registry and no folder directory gives the working
\* trees f/A and f/B of branch b and the single record f -> {b, active};
\* deactivating f then removes both working trees, removes the folder
\* directory when it held nothing but the trees and links, and leaves the
\* single record f -> {b, inactive}; the document holds the registry each time.
C26_RoundTrip ==
    /\ (CreateRun /\ CleanRunEnded /\ config0 = EmptyReg /\ ~fs0[folderName].exists) =>
           /\ \A dir \in Repos :
                  HasTree(fs[folderName], dir) /\ fs[folderName].ents[dir] = Tree(branchName)
           /\ OnlyRecord(config, folderName, branchName, TRUE)
           /\ doc = Document(config)
    /\ (RemoveRun /\ CleanRunEnded /\ OnlyRecord(config0, folderName, branchName, TRUE)
          /\ \A dir \in Repos : HasTree(fs0[folderName], dir)) =>
           /\ \A dir \in Repos : dir \notin DOMAIN fs[folderName].ents
           /\ RegularEntries(fs0[folderName]) = Repos => fs[folderName] = NoDir
           /\ OnlyRecord(config, folderName, branchName, FALSE)
           /\ doc = Document(config)

\* The second run of a behaviour has deactivated the alias the first run
\* activated from the empty registry: trees and folder directory are gone and
\* the record is inactive with its branch.
C26_Witness ==
    /\ now = 2 /\ RemoveRun /\ CleanRunEnded /\ userFiles = 0
    /\ req.folder = "b2" /\ branchName = "b1"
    /\ OnlyRecord(config0, "b2", "b1", TRUE) /\ config0["b2"].lastUsed = 1
    /\ HasTree(fs0["b2"], "A") /\ HasTree(fs0["b2"], "B")
    /\ LinkEntries(fs0["b2"]) # {}
    /\ fs["b2"] = NoDir
    /\ OnlyRecord(config, "b2", "b1", FALSE)
    /\ doc = Document(config)

\* ------------------------------------------------ where the working trees are

\* C27: the working-tree path of every processed repository is
\* <parent of the invocation root>/<alias>/<name of the repository directory>,
\* inside the folder alias directory that the root pass and the cleanup use.
C27_TreeInsideFolderDir ==
    \A i \in DOMAIN visited :
        /\ visited[i] = Join(Dir(cwd), <<folderName, Base(targetDirs[i])>>)
        /\ Dir(visited[i]) = folderDir(folderName)

\* The working-tree path of the directory sub/A, named by -dirs, has been
\* computed: it is <invocation root>/<alias>/A, not in the folder alias
\* directory.
C27_Witness ==
    /\ targetDirs = <<Join(cwd, <<"sub", "A">>)>> /\ folderName = "b1"
    /\ visited = <<Join(cwd, <<"b1", "A">>)>>
    /\ Dir(visited[1]) # folderDir("b1")

\* ------------------------------------------------ the ignore file

\* The last mirror pass has appended a pattern to the ignore file.
PatternAppended ==
    MirrorRan /\ \E p \in IgnoredPaths :
                    Count(tree.ignore, Pattern(p)) > Count(tree0.ignore, Pattern(p))

\* Over any sequence of passes the header is in the ignore file at most once.
HeaderAtMostOnce == Count(tree.ignore, ExcludeHeader) <= 1

\* C28: a mirror pass that has appended at least one pattern to the ignore
\* file of the working tree has asked for the file to be marked
\* assume-unchanged, and the header comment is in the file at most once
\* whatever the sequence of passes.
C28_AppendThenAssumeUnchanged ==
    /\ PatternAppended => mcall.asked
    /\ HeaderAtMostOnce

\* Two items have been linked and the write of the second pattern has failed:
\* the header and the first pattern are in the ignore file, and the file has
\* not been marked.
C28_Witness ==
    /\ mcall.n = 1 /\ mcall.exclude = "write"
    /\ mcall.linked = <<"build", "out/tmp.bin">> /\ ~mcall.err
    /\ tree0.ignore = << >>
    /\ tree.ignore = <<"", ExcludeHeader, "/build">>
    /\ ~mcall.asked /\ ~tree.assumed

\* ------------------------------------------------ rebinding

\* The working trees under the alias of an active record are working trees of
\* the branch of the record.
TreesOfRecordBranch(c) ==
    \A a \in DOMAIN c : \A dir \in Repos :
        (c[a].isActive /\ HasTree(fs[a], dir)) => fs[a].ents[dir].branch = c[a].branch

\* C29: a create request does not rebind an alias that is active: the record
\* of an alias that was active at the start of a create run keeps its branch,
\* and the branch of a record is the branch of the working trees under its
\* alias.
C29_ActiveAliasNotRebound ==
    /\ (CreateRun /\ folderName \in DOMAIN config0 /\ config0[folderName].isActive) =>
           /\ folderName \in DOMAIN config
           /\ config[folderName].branch = config0[folderName].branch
    /\ TreesOfRecordBranch(config)

\* A create request for branch b2 on the alias b1, active for branch b1, has
\* completed: the record b1 names branch b2, its working trees are of b1.
C29_Witness ==
    /\ CreateRun /\ RunEnded /\ outcome = "completed" /\ faults = 0
    /\ req.folder = "b1" /\ req.branch = "b2"
    /\ ActiveFor(config0, "b1", "b1")
    /\ ActiveFor(config, "b1", "b2") /\ doc = Document(config)
    /\ \A dir \in Repos : HasTree(fs["b1"], dir) /\ fs["b1"].ents[dir] = Tree("b1")

\* ------------------------------------------------ a run without repositories

\* A create run has ended after the gates because there was nothing to
\* process: the enumeration failed or found no repository.
EndedWithoutRepositories ==
    CreateRun /\ RunEnded /\ outcome \in {"enumerr", "nodirs"}

\* C30: a create run that ends after the gates because no repository can be
\* processed leaves the registry and its document as they were before the
\* run.
C30_NoRecordWithoutRepositories ==
    EndedWithoutRepositories => config = config0 /\ doc = doc0

\* A create run on the empty registry has found no repository: it has ended
\* with the alias active in the document and nothing on disk.
C30_Witness ==
    /\ EndedWithoutRepositories /\ outcome = "nodirs" /\ faults = 0
    /\ doc0 = MissingDoc
    /\ OnlyRecord(config, folderName, branchName, TRUE)
    /\ doc = Document(config)
    /\ fs = fs0 /\ ~fs[folderName].exists

\* ------------------------------------------------ the branch of a removal

\* Alias a was active at the start of the run for a branch other than the
\* branch the run names.
ActiveForOtherBranch(a) ==
    /\ a \in DOMAIN config0
    /\ config0[a].isActive
    /\ config0[a].branch # branchName

\* C31: a removal request that names branch b deactivates a record, and
\* removes working trees under its alias, only if the branch of that record is
\* b: an alias that was active for another branch at the start of the run
\* stays active and keeps its working trees, also when the request names that
\* alias explicitly.
C31_RemovalOnlyForRecordBranch ==
    (RemoveRun /\ pc # "resolve") =>
        \A a \in Aliases :
            ActiveForOtherBranch(a) =>
                /\ a \in DOMAIN config /\ config[a].isActive
                /\ \A dir \in Repos : HasTree(fs0[a], dir) => HasTree(fs[a], dir)

\* The removal request `-remove -folder b1 b2` has completed while the alias
\* b1 was active for branch b1: the working trees of b1 are removed and the
\* record b1 -> b1 is inactive.
C31_Witness ==
    /\ RemoveRun /\ RunEnded /\ outcome = "completed" /\ faults = 0
    /\ req.folder = "b1" /\ req.branch = "b2"
    /\ ActiveFor(config0, "b1", "b1")
    /\ \A dir \in Repos : HasTree(fs0["b1"], dir) /\ fs0["b1"].ents[dir] = Tree("b1")
    /\ \A dir \in Repos : ~HasTree(fs["b1"], dir)
    /\ ~config["b1"].isActive /\ config["b1"].branch = "b1"
    /\ doc = Document(config)

\* ------------------------------------------------ the frame of a run

\* The records of the aliases other than a are in c exactly as they are in c0,
\* and c has no key besides those of c0 and a.
OthersUnchanged(c0, c, a) ==
    /\ DOMAIN c0 \subseteq DOMAIN c
    /\ DOMAIN c \subseteq DOMAIN c0 \cup {a}
    /\ \A other \in DOMAIN c0 : other # a => c[other] = c0[other]

\* C32: a run that activates or deactivates alias a changes only the record of
\* a: the record (branch, lastUsed, isActive) of every other alias is the same
\* before and after, in memory and in the saved document; and a removal run
\* for an alias that is not a key of the registry adds no key and changes no
\* record.
C32_OnlyTheAliasRecordChanges ==
    /\ \A c \in {config0, config} : \A f \in Aliases, b \in Branches :
           /\ OthersUnchanged(c, touchFolder(c, f, b, now), f)
           /\ OthersUnchanged(c, deactivateFolder(c, f, now), f)
           /\ f \notin DOMAIN c => deactivateFolder(c, f, now) = c
    /\ outcome # "none" =>
           /\ OthersUnchanged(config0, config, folderName)
           /\ saved = "ok" => doc = Document(config)
           /\ (req.remove /\ folderName \notin DOMAIN config0) => config = config0

\* A removal run has deactivated alias b1 while alias b2 was active: the
\* record of b1 has changed, the record of b2 is as it was, in memory and in
\* the document.
C32_Witness ==
    /\ RemoveRun /\ RunEnded /\ outcome = "completed" /\ saved = "ok"
    /\ folderName = "b1"
    /\ DOMAIN config0 = {"b1", "b2"}
    /\ config0["b1"].isActive /\ config0["b2"].isActive
    /\ ~config["b1"].isActive /\ config["b1"].lastUsed = now
    /\ config["b2"] = config0["b2"] /\ config["b2"].lastUsed < now
    /\ doc.folders["b2"] = doc0.folders["b2"]

\* ------------------------------------------------ relocation

\* The leftover files have just been relocated.
Relocated == RemoveRun /\ pc = "rmdir" /\ ops = <<Ev("cleanup", "", "relocate", TRUE)>>

\* C33: under the answer 'relocate' a leftover regular entry whose name
\* already exists in the invocation root is not moved: it stays in the folder
\* alias directory and the entry of the invocation root is left as it is,
\* while the leftover entries whose names the root does not have are moved
\* unless their move fails.
C33_RelocateSkipsExistingNames ==
    /\ (RemoveRun /\ pc = "cleanup") =>
           LET d == fs[folderName]
               names == RootEntries(root, doc)
           IN  \A r \in cleanupFolderDir(d, StatEntries(root, doc, dangling)) :
                   (r.ops = <<Ev("cleanup", "", "relocate", TRUE)>>) =>
                       /\ \A n \in RegularEntries(d) \cap names :
                              /\ n \notin r.moved
                              /\ n \in DOMAIN r.dir.ents /\ r.dir.ents[n] = d.ents[n]
                       /\ r.n = 0 => RegularEntries(d) \ names \subseteq r.moved
                       /\ r.moved \cap DOMAIN r.dir.ents = {}
    /\ Relocated =>
           /\ \A n \in RegularEntries(fs0[folderName]) \cap RootEntries(root0, doc0) :
                  n \in Repos \/ n \in DOMAIN fs[folderName].ents
           /\ root0 \subseteq root

\* The root held a symbolic link named notes whose target was missing, and
\* tools; the folder alias directory held the files notes and tools.  After
\* the relocation the file tools is still in the folder alias directory, the
\* file notes is not, and the entry notes of the root is no longer the link.
C33_Witness ==
    /\ Relocated /\ faults = 0 /\ folderName = "b1"
    /\ "notes" \in root0 /\ "tools" \in root0
    /\ {"notes", "tools"} \subseteq DOMAIN fs0["b1"].ents
    /\ fs0["b1"].ents["notes"] = File /\ fs0["b1"].ents["tools"] = File
    /\ "tools" \in DOMAIN fs["b1"].ents /\ fs["b1"].ents["tools"] = File
    /\ "notes" \notin DOMAIN fs["b1"].ents
    /\ "notes" \in root /\ dangling = {}

\* ------------------------------------------------ the iteration order of the map

\* In registry c the two lookups give the same result in every iteration
\* order, and the results are those the run takes its alias and its conflict
\* from.
OrderIndependent(c) ==
    \A b \in Branches :
        /\ \A s1, s2 \in IterationOrders(c) :
               /\ findFolderByBranchIn(c, b, s1) = findFolderByBranchIn(c, b, s2)
               /\ \A a \in Aliases :
                      checkBranchConflictIn(c, a, b, s1) = checkBranchConflictIn(c, a, b, s2)
        /\ \A s \in IterationOrders(c) :
               /\ findFolderByBranch(c, b) =
                      {r.folder : r \in {findFolderByBranchIn(c, b, s)} \cap
                                        [folder : Aliases, ok : {TRUE}]}
               /\ \A a \in Aliases :
                      checkBranchConflict(c, a, b) = {checkBranchConflictIn(c, a, b, s)} \ {""}

\* The alias of the run was looked up by the branch.
ResolvedByLookup ==
    /\ outcome # "none" /\ ~req.list
    /\ req.branch # "" /\ req.folder = ""
    /\ branchName = req.branch
    /\ findFolderByBranch(config0, req.branch) # {}

\* C34: in every registry that create and remove runs reach from the empty
\* registry, in memory and in the document, findFolderByBranch(b) and
\* checkBranchConflict(a, b) give the same result for every iteration order of
\* the mapping; the alias a request is resolved to by the lookup is that one
\* result.
C34_LookupsIndependentOfMapOrder ==
    /\ OrderIndependent(config)
    /\ OrderIndependent(doc.folders)
    /\ ResolvedByLookup =>
           \A s \in IterationOrders(config0) :
               findFolderByBranchIn(config0, req.branch, s) = [folder |-> folderName, ok |-> TRUE]

\* With two active aliases in the registry, which a range can visit in two
\* orders, the request `-remove b2` has been resolved by the lookup to the
\* alias b2.
C34_Witness ==
    /\ RemoveRun /\ ResolvedByLookup /\ pc = "enum"
    /\ req.branch = "b2" /\ folderName = "b2"
    /\ DOMAIN config0 = {"b1", "b2"}
    /\ ActiveFor(config0, "b1", "b1") /\ ActiveFor(config0, "b2", "b2")
    /\ Cardinality(IterationOrders(config0)) = 2

=============================================================================
